---- MODULE Spec2Model ----
(***************************************************************************)
(* TrendRadar report assembly: prepare_report_data (the Report Data        *)
(* Assembler), its caller generate_html_report and the new-item section of *)
(* render_html_content, modelled from src/trendradar/report/generator.py   *)
(* and src/trendradar/report/html.py.                                      *)
(*                                                                         *)
(* Python values are represented as follows.                               *)
(*   Optional[X]      a record [some |-> FALSE] (None) or                  *)
(*                    [some |-> TRUE, val |-> x]                           *)
(*   dict (ordered)   a sequence of <<key, value>> pairs with distinct     *)
(*                    keys, in insertion (= iteration) order               *)
(*   dict with optional string keys (title_data, stat)                     *)
(*                    a TLA+ record; d.get(k, dflt) is Get(d, k, dflt)     *)
(*   list             a sequence                                           *)
(***************************************************************************)
EXTENDS Integers, Sequences, FiniteSets, TLC

VARIABLES
    stats,                      \* argument stats: List[Dict]
    failed_ids,                 \* argument failed_ids: Optional[List]
    new_titles,                 \* argument new_titles: Optional[Dict] (the delta)
    id_to_name,                 \* argument id_to_name: Optional[Dict]
    mode,                       \* argument mode
    rank_threshold,             \* argument rank_threshold
    matches_word_groups_func,   \* Optional[Callable]: val = the titles it accepts
    load_frequency_words_func,  \* Optional[Callable]: val = the loaded rule set
    show_new_section,           \* the configured show_new_section value
    pc,                         \* "start" | "done" | "rendered"
    entry,                      \* the entry point that ran
    assembler_show,             \* show_new_section as received by prepare_report_data
    render_html_func,           \* the renderer used for the HTML
    report_data,                \* the ReportData returned by prepare_report_data
    html_new_section,           \* the new-item section is present in the HTML
    written,                    \* the files written so far, in order
    \* Title Matcher (spec 4.1), one match call
    m_title,                    \* the title, a sequence of characters
    m_rules,                    \* the rule set
    m_idx,                      \* the word group examined next
    m_discarded,                \* the groups whose match was discarded
    m_result,                   \* Optional[BucketLabel]
    m_pc,                       \* "idle" | "matching" | "done"
    \* rank tier of one rendered title entry (html.py)
    t_threshold,                \* the configured rank_threshold of the report
    t_ranks,                    \* the rank history of the entry
    t_region,                   \* the renderer that drew the entry
    t_class,                    \* the rank class it emitted
    t_pc,                       \* "idle" | "ready" | "done"
    \* one window of the Observation Normalizer
    n_input,                    \* the observations of the window, in poll order
    n_pos,                      \* index of the next observation to consume
    n_records,                  \* record map: sequence of <<key, TitleRecord>>
    n_warnings,                 \* recorded warnings: indices of the dropped
    n_pc,                       \* "idle" | "normalizing" | "done"
    \* one aggregation of a record map and the assembly of its result
    g_records,                  \* the record map of the window
    g_rules,                    \* the rule set
    g_threshold,                \* the configured rank_threshold
    g_stats,                    \* the Stat sequence returned by aggregate
    g_report,                   \* the ReportData assembled from it
    g_pc,                       \* "idle" | "start" | "aggregated" | "assembled"
    \* the windows of one reporting day: New-Item Differ and baseline
    d_baseline,                 \* the persisted known_ids: Optional[set of keys]
    d_rules,                    \* the rule set of the day
    d_window,                   \* number of windows started
    d_records,                  \* the record map of the current window
    d_mode,                     \* the report mode of the current window
    d_enabled,                  \* the new-item section is enabled
    d_known,                    \* known_ids as loaded at window start
    d_delta,                    \* the NewTitlesDelta of the current window
    d_announced,                \* the keys reported as new so far
    d_repeated,                 \* the keys reported as new in a second window
    d_pc,                       \* "idle" | "closed" | "loaded" | "diffed"
    \* two runs for the same source window on one persisted baseline
    r_discipline,               \* "single_writer" | "none": what the caller enforces
    r_initial,                  \* the persisted baseline before the runs
    r_baseline,                 \* the persisted known_ids
    r_rules,                    \* the rule set
    r_active,                   \* the runs between their load and their persist
    r_records,                  \* run -> its record map
    r_known,                    \* run -> known_ids as it loaded them
    r_delta,                    \* run -> its NewTitlesDelta
    r_pc,                       \* run -> "idle" | "ready" | "loaded" | "diffed" | "done"
    \* a window that is aggregated, polled again and aggregated again
    p_obs,                      \* the observations of the window so far, in poll order
    p_rules,                    \* the rule set
    p_stats,                    \* the Stat sequence of the last aggregation
    p_prev,                     \* the Stat sequence of the aggregation before it
    p_repolls,                  \* number of further polls after the first aggregation
    p_pc,                       \* "idle" | "polled" | "aggregated"
    \* the file writes of one generate_html_report call
    w_mode,                     \* argument mode
    w_render,                   \* argument render_html_func: "None" or a renderer
    w_files,                    \* the file system: path -> content
    w_before,                   \* the file system before the call
    w_content,                  \* html_content
    w_log,                      \* the paths written so far, in order
    w_returned,                 \* Optional: the returned path
    w_pc,                       \* "idle", "start", a write step, "done", "raised"
    \* one call of a tool, directly or through its REST handler
    x_op,                       \* the operation called
    x_entry,                    \* "tool": called directly, "rest": by the handler
    x_include,                  \* argument include_url / include_summary
    x_limit_given,              \* argument limit is not None
    x_tools,                    \* outcome of _get_tools in the handler
    x_validation,               \* what the validators do when called
    x_service,                  \* what the data service does when called
    x_outcome,                  \* Optional: how the tool call ended
    x_response,                 \* Optional: the HTTP response
    x_pc,                       \* "idle" | "start" | "returned" | "responded"
    \* aggregation and assembly run again on the same inputs
    k_records,                  \* the record map
    k_rules,                    \* the rule set
    k_delta,                    \* argument new_titles of the assembly
    k_id_to_name,               \* id_to_name
    k_mode,                     \* the report mode
    k_threshold,                \* rank_threshold
    k_stats,                    \* the Stat sequence handed to the assembly
    k_given,                    \* the inputs as they were before the first run
    k_reports,                  \* the ReportData of every run, in order
    k_pc,                       \* "idle" | "start" | "aggregated"
    \* the region assembly loop of render_html_content
    o_region_order,             \* argument region_order: Optional[List[str]]
    o_nonempty,                 \* the rendered parts that are not empty
    o_idx,                      \* position of the loop in region_order
    o_has_previous,             \* has_previous_content
    o_html,                     \* the blocks appended to html, in order
    o_pc,                       \* "idle" | "loop" | "done"
    \* the tools bundle of the REST API and the requests in flight
    c_tools_cache,              \* module global _tools_cache
    c_created,                  \* number of bundles get_mcp_tools() has returned
    c_endpoint,                 \* request -> the tools key of its endpoint, or "health"
    c_pc,                       \* request -> "start" | "thread" | "returned" | "error500"
    c_passed                    \* request -> the tool instance handed to its worker thread

asm_vars == <<stats, failed_ids, new_titles, id_to_name, mode, rank_threshold,
          matches_word_groups_func, load_frequency_words_func,
          show_new_section, pc, entry, assembler_show, render_html_func,
          report_data, html_new_section, written>>

match_vars == <<m_title, m_rules, m_idx, m_discarded, m_result, m_pc>>

tier_vars == <<t_threshold, t_ranks, t_region, t_class, t_pc>>

norm_vars == <<n_input, n_pos, n_records, n_warnings, n_pc>>

agg_vars == <<g_records, g_rules, g_threshold, g_stats, g_report, g_pc>>

day_vars == <<d_baseline, d_rules, d_window, d_records, d_mode, d_enabled, d_known, d_delta, d_announced, d_repeated, d_pc>>

race_vars == <<r_discipline, r_initial, r_baseline, r_rules, r_active, r_records, r_known, r_delta, r_pc>>

poll_vars == <<p_obs, p_rules, p_stats, p_prev, p_repolls, p_pc>>

write_vars == <<w_mode, w_render, w_files, w_before, w_content, w_log, w_returned, w_pc>>

export_vars == <<x_op, x_entry, x_include, x_limit_given, x_tools, x_validation, x_service, x_outcome, x_response, x_pc>>

rerun_vars == <<k_records, k_rules, k_delta, k_id_to_name, k_mode, k_threshold, k_stats, k_given, k_reports, k_pc>>

region_vars == <<o_region_order, o_nonempty, o_idx, o_has_previous, o_html, o_pc>>

cache_vars == <<c_tools_cache, c_created, c_endpoint, c_pc, c_passed>>

vars == <<asm_vars, match_vars, tier_vars, norm_vars, agg_vars, day_vars,
          race_vars, poll_vars, write_vars, export_vars, rerun_vars,
          region_vars, cache_vars>>

\* what the actions of one component leave alone
asm_frame == <<match_vars, tier_vars, norm_vars, agg_vars, day_vars,
               race_vars, poll_vars, write_vars, export_vars, rerun_vars,
               region_vars, cache_vars>>
match_frame == <<asm_vars, tier_vars, norm_vars, agg_vars, day_vars,
                 race_vars, poll_vars, write_vars, export_vars, rerun_vars,
                 region_vars, cache_vars>>
tier_frame == <<asm_vars, match_vars, norm_vars, agg_vars, day_vars,
                race_vars, poll_vars, write_vars, export_vars, rerun_vars,
                region_vars, cache_vars>>
norm_frame == <<asm_vars, match_vars, tier_vars, agg_vars, day_vars,
                race_vars, poll_vars, write_vars, export_vars, rerun_vars,
                region_vars, cache_vars>>
agg_frame == <<asm_vars, match_vars, tier_vars, norm_vars, day_vars,
               race_vars, poll_vars, write_vars, export_vars, rerun_vars,
               region_vars, cache_vars>>
day_frame == <<asm_vars, match_vars, tier_vars, norm_vars, agg_vars,
               race_vars, poll_vars, write_vars, export_vars, rerun_vars,
               region_vars, cache_vars>>
race_frame == <<asm_vars, match_vars, tier_vars, norm_vars, agg_vars,
                day_vars, poll_vars, write_vars, export_vars, rerun_vars,
                region_vars, cache_vars>>
poll_frame == <<asm_vars, match_vars, tier_vars, norm_vars, agg_vars,
                day_vars, race_vars, write_vars, export_vars, rerun_vars,
                region_vars, cache_vars>>
write_frame == <<asm_vars, match_vars, tier_vars, norm_vars, agg_vars,
                 day_vars, race_vars, poll_vars, export_vars, rerun_vars,
                 region_vars, cache_vars>>
export_frame == <<asm_vars, match_vars, tier_vars, norm_vars, agg_vars,
                  day_vars, race_vars, poll_vars, write_vars, rerun_vars,
                  region_vars, cache_vars>>
rerun_frame == <<asm_vars, match_vars, tier_vars, norm_vars, agg_vars,
                 day_vars, race_vars, poll_vars, write_vars, export_vars,
                 region_vars, cache_vars>>
region_frame == <<asm_vars, match_vars, tier_vars, norm_vars, agg_vars,
                  day_vars, race_vars, poll_vars, write_vars, export_vars,
                  rerun_vars, cache_vars>>
cache_frame == <<asm_vars, match_vars, tier_vars, norm_vars, agg_vars,
                 day_vars, race_vars, poll_vars, write_vars, export_vars,
                 rerun_vars, region_vars>>

inputs == <<stats, failed_ids, new_titles, id_to_name, mode, rank_threshold,
            matches_word_groups_func, load_frequency_words_func,
            show_new_section>>

---------------------------------------------------------------------------
(* Bounds of the input universe *)

\* most (source, title) entries in the new-title delta
MaxNewTitles == 3
\* most buckets in the stats argument
MaxStats == 2
\* most title entries in one bucket
MaxStatTitles == 2
\* longest failed_ids list
MaxFailed == 2

SourceIds == {"src1", "src2"}
Titles == {"A", "B"}
Modes == {"daily", "incremental", "current"}
RankThresholds == {3, 5}

---------------------------------------------------------------------------
(* Python values *)

None == [some |-> FALSE]
Some(v) == [some |-> TRUE, val |-> v]

\* d.get(k, dflt) on a dict with string keys
Get(d, k, dflt) == IF k \in DOMAIN d THEN d[k] ELSE dflt

\* d.get(k, dflt) on an ordered dict
RECURSIVE DictGet(_, _, _)
DictGet(d, k, dflt) ==
    IF d = <<>> THEN dflt
    ELSE IF Head(d)[1] = k THEN Head(d)[2]
    ELSE DictGet(Tail(d), k, dflt)

\* the elements of a sequence
Range(q) == {q[i] : i \in 1..Len(q)}

\* truth value of an Optional[Dict] / Optional[List]: None and empty are falsy
Truthy(x) == x.some /\ Len(x.val) > 0

\* sum(len(v) for v in d.values())
RECURSIVE SumLens(_)
SumLens(d) == IF d = <<>> THEN 0 ELSE Len(Head(d)[2]) + SumLens(Tail(d))

\* sum(len(source["titles"]) for source in groups)
RECURSIVE SumTitles(_)
SumTitles(groups) ==
    IF groups = <<>> THEN 0 ELSE Len(Head(groups).titles) + SumTitles(Tail(groups))

---------------------------------------------------------------------------
(* prepare_report_data, generator.py:14-139 *)

\* variant: the mode is not consulted
hide_new_section_ignores_mode(m, show) == ~show

\* variant: the show_new_section switch is not consulted
hide_new_section_ignores_switch(m, show) == m = "incremental"

\* generator.py:45
hide_new_section(m, show) == m = "incremental" \/ ~show

\* variant: the matcher's verdict is ignored
filtered_titles_unfiltered(titles_data, accepted) == titles_data

\* generator.py:55-58: the titles of one source the matcher accepts
filtered_titles(titles_data, accepted) ==
    SelectSeq(titles_data, LAMBDA p : p[1] \in accepted)

\* variant: the loader is not tested before the matcher is used
HasMatcher_matcher_only(mf, lf) == mf.some

\* generator.py:52: both callables were supplied
HasMatcher(mf, lf) == mf.some /\ lf.some

\* generator.py:49-63
filtered_new_titles(nt, idn, mf, lf) ==
    IF Truthy(nt) /\ Truthy(idn)
    THEN IF HasMatcher(mf, lf)
         THEN SelectSeq(
                  [i \in 1..Len(nt.val) |->
                      <<nt.val[i][1], filtered_titles(nt.val[i][2], mf.val)>>],
                  LAMBDA g : g[2] # <<>>)
         ELSE nt.val
    ELSE <<>>

\* generator.py:66
original_new_count(nt) == IF Truthy(nt) THEN SumLens(nt.val) ELSE 0

\* generator.py:67
filtered_new_count(fnt) == IF fnt # <<>> THEN SumLens(fnt) ELSE 0

\* generator.py:73
source_name_of(idn, source_id) == DictGet(idn.val, source_id, source_id)

\* variant: the count of a new entry is the length of its rank history
new_processed_title_counts_ranks(title, title_data, source_name, threshold) ==
    [title          |-> title,
     source_name    |-> source_name,
     time_display   |-> "",
     count          |-> Len(Get(title_data, "ranks", <<>>)),
     ranks          |-> Get(title_data, "ranks", <<>>),
     rank_threshold |-> threshold,
     url            |-> Get(title_data, "url", ""),
     mobile_url     |-> Get(title_data, "mobileUrl", ""),
     is_new         |-> TRUE]

\* generator.py:76-92: one entry of the new-item section
new_processed_title(title, title_data, source_name, threshold) ==
    [title          |-> title,
     source_name    |-> source_name,
     time_display   |-> "",
     count          |-> 1,
     ranks          |-> Get(title_data, "ranks", <<>>),
     rank_threshold |-> threshold,
     url            |-> Get(title_data, "url", ""),
     mobile_url     |-> Get(title_data, "mobileUrl", ""),
     is_new         |-> TRUE]

\* generator.py:72-92: the (not yet tested for emptiness) group of one source
new_source_group(source_id, titles_data, idn, threshold) ==
    [source_id   |-> source_id,
     source_name |-> source_name_of(idn, source_id),
     titles      |-> [i \in 1..Len(titles_data) |->
                         new_processed_title(
                             titles_data[i][1], titles_data[i][2],
                             source_name_of(idn, source_id), threshold)]]

\* variant: a missing or empty id_to_name counts as a mapping without entries
processed_new_titles_without_names(nt, idn, m, threshold, mf, lf, show) ==
    IF hide_new_section(m, show) \/ ~Truthy(nt) THEN <<>>
    ELSE SelectSeq(
             [i \in 1..Len(nt.val) |->
                 new_source_group(
                     nt.val[i][1],
                     IF HasMatcher(mf, lf)
                     THEN filtered_titles(nt.val[i][2], mf.val)
                     ELSE nt.val[i][2],
                     IF idn.some THEN idn ELSE Some(<<>>), threshold)],
             LAMBDA grp : grp.titles # <<>>)

\* variant: a group is emitted for every source of the filtered delta
processed_new_titles_keeps_empty(nt, idn, m, threshold, mf, lf, show) ==
    IF hide_new_section(m, show) THEN <<>>
    ELSE IF filtered_new_titles(nt, idn, mf, lf) # <<>> /\ Truthy(idn)
    THEN [i \in 1..Len(filtered_new_titles(nt, idn, mf, lf)) |->
             new_source_group(
                 filtered_new_titles(nt, idn, mf, lf)[i][1],
                 filtered_new_titles(nt, idn, mf, lf)[i][2],
                 idn, threshold)]
    ELSE <<>>

\* generator.py:42-101
processed_new_titles(nt, idn, m, threshold, mf, lf, show) ==
    IF hide_new_section(m, show) THEN <<>>
    ELSE IF filtered_new_titles(nt, idn, mf, lf) # <<>> /\ Truthy(idn)
    THEN SelectSeq(
             [i \in 1..Len(filtered_new_titles(nt, idn, mf, lf)) |->
                 new_source_group(
                     filtered_new_titles(nt, idn, mf, lf)[i][1],
                     filtered_new_titles(nt, idn, mf, lf)[i][2],
                     idn, threshold)],
             LAMBDA grp : grp.titles # <<>>)
    ELSE <<>>

\* generator.py:110-120: one title entry of a bucket
stat_processed_title(title_data) ==
    [title          |-> title_data.title,
     source_name    |-> title_data.source_name,
     time_display   |-> title_data.time_display,
     count          |-> title_data.count,
     ranks          |-> title_data.ranks,
     rank_threshold |-> title_data.rank_threshold,
     url            |-> Get(title_data, "url", ""),
     mobile_url     |-> Get(title_data, "mobileUrl", ""),
     is_new         |-> Get(title_data, "is_new", FALSE)]

\* variant: only negative counts are skipped
skip_stat_negative_only(stat) == stat.count < 0

\* generator.py:105: the bucket is skipped
skip_stat(stat) == stat.count <= 0

\* variant: the title entries are emitted back to front
processed_stat_titles_reversed(stat) ==
    [word       |-> stat.word,
     count      |-> stat.count,
     percentage |-> Get(stat, "percentage", 0),
     titles     |-> [i \in 1..Len(stat.titles) |->
                        stat_processed_title(
                            stat.titles[Len(stat.titles) + 1 - i])]]

\* generator.py:123-130
processed_stat(stat) ==
    [word       |-> stat.word,
     count      |-> stat.count,
     percentage |-> Get(stat, "percentage", 0),
     titles     |-> [i \in 1..Len(stat.titles) |->
                        stat_processed_title(stat.titles[i])]]

\* variant: the kept buckets are emitted back to front
kept_stats_reversed(sts) ==
    [i \in 1..Len(SelectSeq(sts, LAMBDA stat : ~skip_stat(stat))) |->
        SelectSeq(sts, LAMBDA stat : ~skip_stat(stat))[
            Len(SelectSeq(sts, LAMBDA stat : ~skip_stat(stat))) + 1 - i]]

\* generator.py:104-106: the buckets that are not skipped, in input order
kept_stats(sts) == SelectSeq(sts, LAMBDA stat : ~skip_stat(stat))

\* generator.py:103-130
processed_stats(sts) ==
    [i \in 1..Len(kept_stats(sts)) |-> processed_stat(kept_stats(sts)[i])]

\* variant: the list is rebuilt back to front
failed_ids_reversed(f) ==
    IF Truthy(f)
    THEN [i \in 1..Len(f.val) |-> f.val[Len(f.val) + 1 - i]]
    ELSE <<>>

\* generator.py:135
failed_ids_or_empty(f) == IF Truthy(f) THEN f.val ELSE <<>>

\* variant: the groups are counted, not their titles
total_new_count_of_groups(groups) == Len(groups)

\* generator.py:136-138
total_new_count(groups) == SumTitles(groups)

\* generator.py:14-139
prepare_report_data(sts, f, nt, idn, m, threshold, mf, lf, show) ==
    [stats           |-> processed_stats(sts),
     new_titles      |-> processed_new_titles(nt, idn, m, threshold, mf, lf, show),
     failed_ids      |-> failed_ids_or_empty(f),
     total_new_count |-> total_new_count(
                             processed_new_titles(nt, idn, m, threshold, mf, lf, show))]

\* html.py:1723-1724: the renderer emits the new-item section
render_new_section(rd, show) == show /\ rd.new_titles # <<>>


---------------------------------------------------------------------------
(* The input universe *)

\* sequences over S without repetition (the key orders of a dict)
DistinctSeqs(S) ==
    UNION {{q \in [1..k -> S] : \A i, j \in 1..k : i # j => q[i] # q[j]} :
           k \in 0..Cardinality(S)}

\* sequences over S of length at most n
SeqsUpTo(S, n) == UNION {[1..k -> S] : k \in 0..n}

\* the title_data of a new title: url, mobileUrl and ranks are each optional
TitleDataOf(source_id, title) ==
    IF source_id = "src1"
    THEN IF title = "A"
         THEN [url |-> "http://a", mobileUrl |-> "http://m.a", ranks |-> <<2>>]
         ELSE [ranks |-> <<4, 2>>]
    ELSE IF title = "A"
         THEN [url |-> "http://a"]
         ELSE [mobileUrl |-> "http://m.b", ranks |-> <<9>>]

\* the title dicts of one source, in every key order
TitleDictsOf(source_id) ==
    {[i \in 1..Len(ts) |-> <<ts[i], TitleDataOf(source_id, ts[i])>>] :
     ts \in DistinctSeqs(Titles)}

\* the deltas whose sources are ss, in that order
DeltasOver(ss) ==
    {[i \in 1..Len(ss) |-> <<ss[i], c[i]>>] :
     c \in {c \in [1..Len(ss) -> UNION {TitleDictsOf(x) : x \in SourceIds}] :
            \A i \in 1..Len(ss) : c[i] \in TitleDictsOf(ss[i])}}

Deltas ==
    {d \in UNION {DeltasOver(ss) : ss \in DistinctSeqs(SourceIds)} :
     SumLens(d) <= MaxNewTitles}

NewTitlesArgs == {None} \cup {Some(d) : d \in Deltas}

SampleDelta ==
    Some(<< <<"src2", <<<<"B", TitleDataOf("src2", "B")>>>> >>,
            <<"src1", <<<<"A", TitleDataOf("src1", "A")>>,
                        <<"B", TitleDataOf("src1", "B")>>>> >> >>)

\* src1 is a known source, src2 an unknown one
KnownNames == Some(<< <<"src1", "Source One">> >>)

IdToNameArgs == {None, Some(<<>>), KnownNames}

\* <<matches_word_groups_func, load_frequency_words_func>>
NoMatcher == <<None, None>>
MatcherArgs ==
    {<<Some(acc), Some("rules")>> : acc \in SUBSET Titles}
    \cup {NoMatcher, <<Some({"A"}), None>>, <<None, Some("rules")>>}

\* the title entries of a bucket, as the aggregation hands them over
EntryPool ==
    << [title |-> "A", source_name |-> "Source One",
        time_display |-> "09:00 ~ 10:00", count |-> 2, ranks |-> <<4, 2>>,
        rank_threshold |-> 5, url |-> "http://a", mobileUrl |-> "http://m.a",
        is_new |-> TRUE],
       [title |-> "B", source_name |-> "src2", time_display |-> "",
        count |-> 1, ranks |-> <<9>>, rank_threshold |-> 5],
       [title |-> "C", source_name |-> "Source One", time_display |-> "11:00",
        count |-> 1, ranks |-> <<5>>, rank_threshold |-> 3,
        url |-> "http://c"] >>

StatEntryAt(i) == EntryPool[((i - 1) % Len(EntryPool)) + 1]

Words == <<"w1", "w2", "w3", "w4">>
WordAt(j) == Words[((j - 1) % Len(Words)) + 1]

\* the j-th bucket with k title entries and count c; percentage is optional
StatAt(j, k, c) ==
    IF j % 2 = 1
    THEN [word |-> WordAt(j), count |-> c, percentage |-> 50,
          titles |-> [i \in 1..k |-> StatEntryAt(i)]]
    ELSE [word |-> WordAt(j), count |-> c,
          titles |-> [i \in 1..k |-> StatEntryAt(i)]]

\* counts of a bucket of k titles: negative, zero, consistent, inconsistent
StatsAt(j) ==
    UNION {{StatAt(j, k, c) : c \in {-1, 0, k, k + 1}} : k \in 0..MaxStatTitles}

StatsArgs ==
    UNION {{q \in [1..n -> UNION {StatsAt(j) : j \in 1..n}] :
            \A j \in 1..n : q[j] \in StatsAt(j)} : n \in 0..MaxStats}

SampleStats == <<StatAt(1, 1, 1), StatAt(2, 0, 0)>>

FailedArgs == {None} \cup {Some(f) : f \in SeqsUpTo(SourceIds, MaxFailed)}

NoReport ==
    [stats |-> <<>>, new_titles |-> <<>>, failed_ids |-> <<>>,
     total_new_count |-> 0]

---------------------------------------------------------------------------
(* The state machine *)

InitCall ==
    /\ pc = "start"
    /\ entry = "none"
    /\ assembler_show = TRUE
    /\ render_html_func = "None"
    /\ report_data = NoReport
    /\ html_new_section = FALSE
    /\ written = <<>>

\* the delta, the name table, the matcher and the mode vary
InitDeltaSide ==
    /\ new_titles \in NewTitlesArgs
    /\ id_to_name \in IdToNameArgs
    /\ \E mm \in MatcherArgs :
           /\ matches_word_groups_func = mm[1]
           /\ load_frequency_words_func = mm[2]
    /\ mode \in Modes
    /\ show_new_section \in BOOLEAN
    /\ rank_threshold \in RankThresholds
    /\ stats = SampleStats
    /\ failed_ids \in {None, Some(<<"src2">>)}

\* the buckets vary
InitStatsSide ==
    /\ stats \in StatsArgs
    /\ failed_ids \in {None, Some(<<"src2", "src1">>)}
    /\ mode \in Modes
    /\ show_new_section = TRUE
    /\ rank_threshold = 5
    /\ new_titles \in {None, SampleDelta}
    /\ id_to_name = KnownNames
    /\ matches_word_groups_func = None
    /\ load_frequency_words_func = None

\* failed_ids varies
InitFailedSide ==
    /\ failed_ids \in FailedArgs
    /\ stats \in {<<>>, SampleStats}
    /\ mode \in Modes
    /\ show_new_section \in BOOLEAN
    /\ rank_threshold = 5
    /\ new_titles \in {None, SampleDelta}
    /\ id_to_name = KnownNames
    /\ \E mm \in {NoMatcher, <<Some({"A"}), Some("rules")>>} :
           /\ matches_word_groups_func = mm[1]
           /\ load_frequency_words_func = mm[2]

\* the other components are not running
IdleMatch ==
    /\ m_title = <<>>
    /\ m_rules = [word_groups |-> <<>>, filter_words |-> {}, global_filters |-> {}]
    /\ m_idx = 1
    /\ m_discarded = {}
    /\ m_result = None
    /\ m_pc = "idle"

IdleTier ==
    /\ t_threshold = 1
    /\ t_ranks = <<>>
    /\ t_region = "none"
    /\ t_class = "unrendered"
    /\ t_pc = "idle"

IdleNorm ==
    /\ n_input = <<>>
    /\ n_pos = 1
    /\ n_records = <<>>
    /\ n_warnings = <<>>
    /\ n_pc = "idle"

IdleAgg ==
    /\ g_records = <<>>
    /\ g_rules = [word_groups |-> <<>>, filter_words |-> {},
                  global_filters |-> {}]
    /\ g_threshold = 3
    /\ g_stats = <<>>
    /\ g_report = NoReport
    /\ g_pc = "idle"

IdleDay ==
    /\ d_baseline = None
    /\ d_rules = [word_groups |-> <<>>, filter_words |-> {},
                  global_filters |-> {}]
    /\ d_window = 0
    /\ d_records = <<>>
    /\ d_mode = "daily"
    /\ d_enabled = TRUE
    /\ d_known = None
    /\ d_delta = <<>>
    /\ d_announced = {}
    /\ d_repeated = {}
    /\ d_pc = "idle"

IdleRace ==
    /\ r_discipline = "single_writer"
    /\ r_initial = None
    /\ r_baseline = None
    /\ r_rules = [word_groups |-> <<>>, filter_words |-> {},
                  global_filters |-> {}]
    /\ r_active = {}
    /\ r_records = <<>>
    /\ r_known = <<>>
    /\ r_delta = <<>>
    /\ r_pc = <<>>

IdlePoll ==
    /\ p_obs = <<>>
    /\ p_rules = [word_groups |-> <<>>, filter_words |-> {},
                  global_filters |-> {}]
    /\ p_stats = <<>>
    /\ p_prev = <<>>
    /\ p_repolls = 0
    /\ p_pc = "idle"

IdleWrite ==
    /\ w_mode = "daily"
    /\ w_render = "None"
    /\ w_files = <<>>
    /\ w_before = <<>>
    /\ w_content = [kind |-> "none"]
    /\ w_log = <<>>
    /\ w_returned = None
    /\ w_pc = "idle"

IdleExport ==
    /\ x_op = "export_news_csv"
    /\ x_entry = "tool"
    /\ x_include = TRUE
    /\ x_limit_given = TRUE
    /\ x_tools = [type |-> "ok"]
    /\ x_validation = [type |-> "ok"]
    /\ x_service = [type |-> "ok", items |-> <<>>]
    /\ x_outcome = None
    /\ x_response = None
    /\ x_pc = "idle"

IdleRerun ==
    /\ k_records = <<>>
    /\ k_rules = [word_groups |-> <<>>, filter_words |-> {},
                  global_filters |-> {}]
    /\ k_delta = None
    /\ k_id_to_name = None
    /\ k_mode = "daily"
    /\ k_threshold = 3
    /\ k_stats = <<>>
    /\ k_given = <<>>
    /\ k_reports = <<>>
    /\ k_pc = "idle"

IdleRegion ==
    /\ o_region_order = None
    /\ o_nonempty = {}
    /\ o_idx = 1
    /\ o_has_previous = FALSE
    /\ o_html = <<>>
    /\ o_pc = "idle"

IdleCache ==
    /\ c_tools_cache = None
    /\ c_created = 0
    /\ c_endpoint = <<>>
    /\ c_pc = <<>>
    /\ c_passed = <<>>

Init ==
    /\ InitCall
    /\ (InitDeltaSide \/ InitStatsSide \/ InitFailedSide)
    /\ IdleMatch
    /\ IdleTier
    /\ IdleNorm
    /\ IdleAgg
    /\ IdleDay
    /\ IdleRace
    /\ IdlePoll
    /\ IdleWrite
    /\ IdleExport
    /\ IdleRerun
    /\ IdleRegion
    /\ IdleCache

\* a direct call prepare_report_data(..., show_new_section=<configured>)
PrepareReportData ==
    /\ pc = "start"
    /\ report_data' = prepare_report_data(
           stats, failed_ids, new_titles, id_to_name, mode, rank_threshold,
           matches_word_groups_func, load_frequency_words_func,
           show_new_section)
    /\ assembler_show' = show_new_section
    /\ entry' = "prepare_report_data"
    /\ pc' = "done"
    /\ UNCHANGED <<inputs, render_html_func, html_new_section, written>>
    /\ UNCHANGED asm_frame

\* generator.py:142-236: show_new_section is not passed on, so the assembler
\* and render_html_func (called with four positional arguments) both run
\* with their default show_new_section=True
GenerateHtmlReport ==
    /\ pc = "start"
    /\ \E rf \in {"None", "render_html_content"} :
           /\ render_html_func' = rf
           /\ report_data' = prepare_report_data(
                  stats, failed_ids, new_titles, id_to_name, mode,
                  rank_threshold, matches_word_groups_func,
                  load_frequency_words_func, TRUE)
           /\ html_new_section' =
                  IF rf = "None"
                  THEN report_data'.new_titles # <<>>
                  ELSE render_new_section(report_data', TRUE)
    /\ assembler_show' = TRUE
    /\ written' = <<"snapshot", "latest", "output_index", "root_index">>
    /\ entry' = "generate_html_report"
    /\ pc' = "done"
    /\ UNCHANGED inputs
    /\ UNCHANGED asm_frame

\* html.py:16-30, 1722-1784: render_html_content on an assembled ReportData,
\* with the show_new_section keyword the caller chooses
RenderHtmlContent ==
    /\ pc = "done"
    /\ entry = "prepare_report_data"
    /\ \E show \in BOOLEAN :
           html_new_section' = render_new_section(report_data, show)
    /\ render_html_func' = "render_html_content"
    /\ pc' = "rendered"
    /\ UNCHANGED <<inputs, entry, assembler_show, report_data, written>>
    /\ UNCHANGED asm_frame

Next == PrepareReportData \/ GenerateHtmlReport \/ RenderHtmlContent

Spec == Init /\ [][Next]_vars

---------------------------------------------------------------------------
(* Title Matcher, spec 4.1: match(title, rules) -> Optional[BucketLabel].   *)
(* A title and a term are sequences of characters; a rule set is            *)
(* [word_groups, filter_words, global_filters], a word group                *)
(* [label, kind, terms] with kind "all" (every term required) or "any".     *)

\* longest title
MaxTitleLen == 3
\* most word groups in a rule set
MaxGroups == 2

Chars == {"a", "A", "b", " "}

\* case folding of one character
Fold(ch) == IF ch = "A" THEN "a" ELSE ch

\* the normalized (case-folded) text
Normalize(text) == [i \in 1..Len(text) |-> Fold(text[i])]

\* substring containment
Contains(text, term) ==
    \E i \in 0..(Len(text) - Len(term)) : SubSeq(text, i + 1, i + Len(term)) = term

\* the title contains the term, both normalized
HasTerm(title, term) == Contains(Normalize(title), Normalize(term))

\* empty or whitespace-only
IsBlank(title) == \A i \in 1..Len(title) : title[i] = " "

\* the title satisfies the term logic of the group
GroupSatisfied(title, g) ==
    IF g.kind = "all"
    THEN \A t \in g.terms : HasTerm(title, t)
    ELSE \E t \in g.terms : HasTerm(title, t)

\* a term of filter_words or of global_filters is present in the title
Filtered(title, rules) ==
    \E t \in rules.filter_words \cup rules.global_filters : HasTerm(title, t)

\* the search from group i on
RECURSIVE match_from(_, _, _)
match_from(title, rules, i) ==
    IF i > Len(rules.word_groups) THEN None
    ELSE IF GroupSatisfied(title, rules.word_groups[i]) /\ ~Filtered(title, rules)
    THEN Some(rules.word_groups[i].label)
    ELSE match_from(title, rules, i + 1)

match(title, rules) ==
    IF IsBlank(title) THEN None ELSE match_from(title, rules, 1)

GroupPool ==
    { [label |-> "ga",   kind |-> "all", terms |-> {<<"a">>}],
      [label |-> "gab",  kind |-> "all", terms |-> {<<"a">>, <<"b">>}],
      [label |-> "gany", kind |-> "any", terms |-> {<<"a", "b">>, <<"b", "b">>}],
      [label |-> "gb",   kind |-> "all", terms |-> {<<"b">>}] }

RuleSets ==
    [word_groups    : {q \in DistinctSeqs(GroupPool) : Len(q) <= MaxGroups},
     filter_words   : {{}, {<<"b", "a">>}},
     global_filters : {{}, {<<"a", "a">>}}]

MatchTitles == SeqsUpTo(Chars, MaxTitleLen)

IdleAsm ==
    /\ stats = <<>>
    /\ failed_ids = None
    /\ new_titles = None
    /\ id_to_name = None
    /\ mode = "daily"
    /\ rank_threshold = 3
    /\ matches_word_groups_func = None
    /\ load_frequency_words_func = None
    /\ show_new_section = TRUE
    /\ pc = "idle"
    /\ entry = "none"
    /\ assembler_show = TRUE
    /\ render_html_func = "None"
    /\ report_data = NoReport
    /\ html_new_section = FALSE
    /\ written = <<>>

InitMatch ==
    /\ m_title \in MatchTitles
    /\ m_rules \in RuleSets
    /\ m_idx = 1
    /\ m_discarded = {}
    /\ m_result = None
    /\ m_pc = "matching"
    /\ IdleAsm
    /\ IdleTier
    /\ IdleNorm
    /\ IdleAgg
    /\ IdleDay
    /\ IdleRace
    /\ IdlePoll
    /\ IdleWrite
    /\ IdleExport
    /\ IdleRerun
    /\ IdleRegion
    /\ IdleCache

\* an empty or whitespace-only title: no match, no error
MatchBlank ==
    /\ m_pc = "matching"
    /\ IsBlank(m_title)
    /\ m_result' = None
    /\ m_pc' = "done"
    /\ UNCHANGED <<m_title, m_rules, m_idx, m_discarded>>
    /\ UNCHANGED match_frame

\* the group under examination exists
AtGroup ==
    /\ m_pc = "matching"
    /\ ~IsBlank(m_title)
    /\ m_idx <= Len(m_rules.word_groups)

\* the title does not satisfy the group: on to the next group
MatchGroupSkip ==
    /\ AtGroup
    /\ ~GroupSatisfied(m_title, m_rules.word_groups[m_idx])
    /\ m_idx' = m_idx + 1
    /\ UNCHANGED <<m_title, m_rules, m_discarded, m_result, m_pc>>
    /\ UNCHANGED match_frame

\* variant: a discarded match ends the whole search
MatchGroupDiscard_ends_search ==
    /\ AtGroup
    /\ GroupSatisfied(m_title, m_rules.word_groups[m_idx])
    /\ Filtered(m_title, m_rules)
    /\ m_discarded' = m_discarded \cup {m_idx}
    /\ m_result' = None
    /\ m_pc' = "done"
    /\ UNCHANGED <<m_title, m_rules, m_idx>>
    /\ UNCHANGED match_frame

\* the group matches but a filter term is present: the match is discarded
\* and matching continues with the next group
MatchGroupDiscard ==
    /\ AtGroup
    /\ GroupSatisfied(m_title, m_rules.word_groups[m_idx])
    /\ Filtered(m_title, m_rules)
    /\ m_discarded' = m_discarded \cup {m_idx}
    /\ m_idx' = m_idx + 1
    /\ UNCHANGED <<m_title, m_rules, m_result, m_pc>>
    /\ UNCHANGED match_frame

\* variant: the search goes on after a win, so the last matching group wins
MatchGroupAccept_last_wins ==
    /\ AtGroup
    /\ GroupSatisfied(m_title, m_rules.word_groups[m_idx])
    /\ ~Filtered(m_title, m_rules)
    /\ m_result' = Some(m_rules.word_groups[m_idx].label)
    /\ m_idx' = m_idx + 1
    /\ m_pc' = IF m_idx = Len(m_rules.word_groups) THEN "done" ELSE "matching"
    /\ UNCHANGED <<m_title, m_rules, m_discarded>>
    /\ UNCHANGED match_frame

\* the group matches and no filter term is present: this group wins
MatchGroupAccept ==
    /\ AtGroup
    /\ GroupSatisfied(m_title, m_rules.word_groups[m_idx])
    /\ ~Filtered(m_title, m_rules)
    /\ m_result' = Some(m_rules.word_groups[m_idx].label)
    /\ m_pc' = "done"
    /\ UNCHANGED <<m_title, m_rules, m_idx, m_discarded>>
    /\ UNCHANGED match_frame

\* no group is left: no bucket
MatchExhausted ==
    /\ m_pc = "matching"
    /\ ~IsBlank(m_title)
    /\ m_idx > Len(m_rules.word_groups)
    /\ m_pc' = "done"
    /\ UNCHANGED <<m_title, m_rules, m_idx, m_discarded, m_result>>
    /\ UNCHANGED match_frame

NextMatch ==
    \/ MatchBlank
    \/ MatchGroupSkip
    \/ MatchGroupDiscard
    \/ MatchGroupAccept
    \/ MatchExhausted

SpecMatch == InitMatch /\ [][NextMatch]_vars

---------------------------------------------------------------------------
(* Rank tier of a rendered title entry, html.py.  The classes are "top",    *)
(* "high" and "" (normal); "none" stands for no rank element at all.        *)

\* largest rank observed
MaxRank == 11
\* longest rank history
MaxRanks == 2
\* largest configured rank_threshold
MaxThreshold == 11

\* min(ranks)
MinOf(ranks) == CHOOSE x \in Range(ranks) : \A y \in Range(ranks) : x <= y

\* html.py:1654-1667: an entry of the hot-list statistics
rank_class_stats(title_data) ==
    IF Get(title_data, "ranks", <<>>) = <<>> THEN "none"
    ELSE IF MinOf(title_data.ranks) <= 3 THEN "top"
    ELSE IF MinOf(title_data.ranks) <= Get(title_data, "rank_threshold", 10)
    THEN "high"
    ELSE ""

\* html.py:1739-1748: an entry of the new-item section
rank_class_new(title_data) ==
    IF Get(title_data, "ranks", <<>>) = <<>> THEN ""
    ELSE IF MinOf(title_data.ranks) <= 3 THEN "top"
    ELSE IF MinOf(title_data.ranks) <= Get(title_data, "rank_threshold", 10)
    THEN "high"
    ELSE ""

\* html.py:1969-2007: an item of the standalone section
rank_class_standalone(item) ==
    IF Get(item, "ranks", <<>>) # <<>>
    THEN IF MinOf(item.ranks) <= 3 THEN "top"
         ELSE IF MinOf(item.ranks) <= 10 THEN "high"
         ELSE ""
    ELSE IF Get(item, "rank", 0) > 0
    THEN IF item.rank <= 3 THEN "top"
         ELSE IF item.rank <= 10 THEN "high"
         ELSE ""
    ELSE "none"

\* a bucket entry as the aggregation produces it under the configured threshold
TierStatEntry(ranks, threshold) ==
    [title |-> "A", source_name |-> "Source One", time_display |-> "",
     count |-> Len(ranks), ranks |-> ranks, rank_threshold |-> threshold]

\* html.py:1890-1905: an item of standalone_data; it has no rank_threshold
TierStandaloneItem(rank, ranks) ==
    [title |-> "A", url |-> "http://a", rank |-> rank, ranks |-> ranks,
     count |-> Len(ranks)]

InitTier ==
    /\ t_threshold \in 1..MaxThreshold
    /\ t_ranks \in SeqsUpTo(1..MaxRank, MaxRanks)
    /\ t_region = "none"
    /\ t_class = "unrendered"
    /\ t_pc = "ready"
    /\ IdleAsm
    /\ IdleMatch
    /\ IdleNorm
    /\ IdleAgg
    /\ IdleDay
    /\ IdleRace
    /\ IdlePoll
    /\ IdleWrite
    /\ IdleExport
    /\ IdleRerun
    /\ IdleRegion
    /\ IdleCache

\* the entry reaches the hot-list statistics through prepare_report_data
RenderStatsRank ==
    /\ t_pc = "ready"
    /\ t_class' = rank_class_stats(
                      stat_processed_title(TierStatEntry(t_ranks, t_threshold)))
    /\ t_region' = "hotlist"
    /\ t_pc' = "done"
    /\ UNCHANGED <<t_threshold, t_ranks>>
    /\ UNCHANGED tier_frame

\* the entry reaches the new-item section through prepare_report_data
RenderNewRank ==
    /\ t_pc = "ready"
    /\ t_class' = rank_class_new(
                      new_processed_title("A", [ranks |-> t_ranks],
                                          "Source One", t_threshold))
    /\ t_region' = "new_items"
    /\ t_pc' = "done"
    /\ UNCHANGED <<t_threshold, t_ranks>>
    /\ UNCHANGED tier_frame

\* the entry is an item of the standalone section
RenderStandaloneRank ==
    /\ t_pc = "ready"
    /\ \E rank \in 0..MaxRank :
           t_class' = rank_class_standalone(TierStandaloneItem(rank, t_ranks))
    /\ t_region' = "standalone"
    /\ t_pc' = "done"
    /\ UNCHANGED <<t_threshold, t_ranks>>
    /\ UNCHANGED tier_frame

NextTier == RenderStatsRank \/ RenderNewRank \/ RenderStandaloneRank

SpecTier == InitTier /\ [][NextTier]_vars

---------------------------------------------------------------------------
(* Observation Normalizer, spec 4.2: normalize(observations) -> record map. *)
(* The record map keeps its keys in insertion order: a sequence of          *)
(* <<key, TitleRecord>> with key = <<source_id, title>>.                    *)

\* most observations in one window
MaxObs == 3

\* one Observation of the fetch layer
Obs(source_id, title, rank, timestamp, url) ==
    [source_id |-> source_id, title |-> title, rank |-> rank,
     timestamp |-> timestamp, url |-> url, mobile_url |-> ""]

\* the observations a poll can deliver: good and malformed ones, with
\* timestamps that need not follow the poll order
ObsPool ==
    { Obs("src1", <<"a">>, 2, 2, ""),
      Obs("src1", <<"a">>, 1, 1, "http://a"),
      Obs("src1", <<"a">>, 0, 3, "http://a"),
      Obs("src1", <<"a">>, 5, 3, ""),
      Obs("src1", <<"b">>, 1, 1, "http://b"),
      Obs("src1", <<"b">>, -1, 2, ""),
      Obs("src2", <<"a">>, 3, 2, "http://a2"),
      Obs("src1", <<>>, 1, 1, "") }

KeyOf(o) == <<o.source_id, o.title>>

\* spec 4.2 and 7: a non-positive rank or an empty title
Malformed(o) == o.rank <= 0 \/ o.title = <<>>

\* the keys of a record map, in insertion order
KeysOf(records) == [i \in 1..Len(records) |-> records[i][1]]

HasKey(records, key) == \E i \in 1..Len(records) : records[i][1] = key

IndexOfKey(records, key) == CHOOSE i \in 1..Len(records) : records[i][1] = key

\* spec 4.2: the record of a new key
NewRecord(o) ==
    [ranks |-> <<o.rank>>, first_time |-> o.timestamp,
     last_time |-> o.timestamp, count |-> 1,
     url |-> o.url, mobile_url |-> o.mobile_url]

\* spec 4.2: the first non-empty value wins
KeepFirst(old, new) == IF old # "" THEN old ELSE new

\* spec 4.2: the record of an existing key after one more observation
UpdatedRecord(rec, o) ==
    [ranks |-> Append(rec.ranks, o.rank), first_time |-> rec.first_time,
     last_time |-> o.timestamp, count |-> rec.count + 1,
     url |-> KeepFirst(rec.url, o.url),
     mobile_url |-> KeepFirst(rec.mobile_url, o.mobile_url)]

\* one step of normalize on a record map
normalize_step(records, o) ==
    IF Malformed(o) THEN records
    ELSE IF HasKey(records, KeyOf(o))
    THEN [records EXCEPT ![IndexOfKey(records, KeyOf(o))] =
              <<KeyOf(o), UpdatedRecord(@[2], o)>>]
    ELSE Append(records, <<KeyOf(o), NewRecord(o)>>)

\* normalize(observations)
RECURSIVE normalize(_)
normalize(observations) ==
    IF observations = <<>> THEN <<>>
    ELSE normalize_step(
             normalize(SubSeq(observations, 1, Len(observations) - 1)),
             observations[Len(observations)])

InitNorm ==
    /\ n_input \in SeqsUpTo(ObsPool, MaxObs)
    /\ n_pos = 1
    /\ n_records = <<>>
    /\ n_warnings = <<>>
    /\ n_pc = "normalizing"
    /\ IdleAsm
    /\ IdleMatch
    /\ IdleTier
    /\ IdleAgg
    /\ IdleDay
    /\ IdleRace
    /\ IdlePoll
    /\ IdleWrite
    /\ IdleExport
    /\ IdleRerun
    /\ IdleRegion
    /\ IdleCache

\* there is an observation left in the window
AtObservation ==
    /\ n_pc = "normalizing"
    /\ n_pos <= Len(n_input)

\* a malformed observation is dropped with a recorded warning
NormalizeMalformed ==
    /\ AtObservation
    /\ Malformed(n_input[n_pos])
    /\ n_warnings' = Append(n_warnings, n_pos)
    /\ n_pos' = n_pos + 1
    /\ UNCHANGED <<n_input, n_records, n_pc>>
    /\ UNCHANGED norm_frame

\* a new key: a record is created
NormalizeNewKey ==
    /\ AtObservation
    /\ ~Malformed(n_input[n_pos])
    /\ ~HasKey(n_records, KeyOf(n_input[n_pos]))
    /\ n_records' = Append(n_records,
                           <<KeyOf(n_input[n_pos]), NewRecord(n_input[n_pos])>>)
    /\ n_pos' = n_pos + 1
    /\ UNCHANGED <<n_input, n_warnings, n_pc>>
    /\ UNCHANGED norm_frame

\* variant: the new rank is put in front of the history
NormalizeExistingKey_prepends ==
    /\ AtObservation
    /\ ~Malformed(n_input[n_pos])
    /\ HasKey(n_records, KeyOf(n_input[n_pos]))
    /\ n_records' =
           [n_records EXCEPT ![IndexOfKey(n_records, KeyOf(n_input[n_pos]))] =
               <<@[1], [UpdatedRecord(@[2], n_input[n_pos]) EXCEPT
                           !.ranks = <<@[Len(@)]>> \o SubSeq(@, 1, Len(@) - 1)]>>]
    /\ n_pos' = n_pos + 1
    /\ UNCHANGED <<n_input, n_warnings, n_pc>>
    /\ UNCHANGED norm_frame

\* an existing key: its record is extended
NormalizeExistingKey ==
    /\ AtObservation
    /\ ~Malformed(n_input[n_pos])
    /\ HasKey(n_records, KeyOf(n_input[n_pos]))
    /\ n_records' =
           [n_records EXCEPT ![IndexOfKey(n_records, KeyOf(n_input[n_pos]))] =
               <<@[1], UpdatedRecord(@[2], n_input[n_pos])>>]
    /\ n_pos' = n_pos + 1
    /\ UNCHANGED <<n_input, n_warnings, n_pc>>
    /\ UNCHANGED norm_frame

\* the window is consumed: the record map is returned
NormalizeReturn ==
    /\ n_pc = "normalizing"
    /\ n_pos > Len(n_input)
    /\ n_pc' = "done"
    /\ UNCHANGED <<n_input, n_pos, n_records, n_warnings>>
    /\ UNCHANGED norm_frame

NextNorm ==
    \/ NormalizeMalformed
    \/ NormalizeNewKey
    \/ NormalizeExistingKey
    \/ NormalizeReturn

SpecNorm == InitNorm /\ [][NextNorm]_vars

---------------------------------------------------------------------------
(* Aggregator, spec 4.3: aggregate(records, rules, rank_threshold,          *)
(* id_to_name) -> sequence of Stat, followed by the assembly of the result  *)
(* by prepare_report_data.                                                  *)

\* most records in a record map
MaxRecords == 4
\* most word groups (buckets) of an aggregation
MaxBuckets == 3

\* the records of the window: the rank order differs from the key order
RecordPool ==
    { <<"src1", <<"a">>>>, <<"src2", <<"a">>>>, <<"src1", <<"b">>>>,
      <<"src1", <<"a", "b">>>> }

\* the rank history observed for a key
PoolRanksOf(key) ==
    IF key = <<"src1", <<"a">>>> THEN <<4, 6>>
    ELSE IF key = <<"src2", <<"a">>>> THEN <<2>>
    ELSE IF key = <<"src1", <<"b">>>> THEN <<7, 1, 7>>
    ELSE <<5>>

PoolRecordOf(key) ==
    [ranks |-> PoolRanksOf(key), first_time |-> 1,
     last_time |-> Len(PoolRanksOf(key)), count |-> Len(PoolRanksOf(key)),
     url |-> "http://x", mobile_url |-> ""]

\* the record maps: every order of discovery of up to MaxRecords keys
RecordMaps ==
    {[i \in 1..Len(q) |-> <<q[i], PoolRecordOf(q[i])>>] :
        q \in {k \in DistinctSeqs(RecordPool) : Len(k) <= MaxRecords}}

AggRuleSets ==
    [word_groups    : {q \in DistinctSeqs(GroupPool) : Len(q) <= MaxBuckets},
     filter_words   : {{}, {<<"b", "a">>}},
     global_filters : {{}, {<<"a", "a">>}}]

\* the occurrence counts of a record sequence, added up
RECURSIVE SumCounts(_)
SumCounts(recs) ==
    IF recs = <<>> THEN 0
    ELSE recs[1][2].count + SumCounts(SubSeq(recs, 2, Len(recs)))

\* the records matched to a bucket, in the order of the record map
matched_records(records, rules, label) ==
    SelectSeq(records, LAMBDA kr : match(kr[1][2], rules) = Some(label))

\* the title entry of a record
title_entry(kr, threshold, idn) ==
    [title          |-> kr[1][2],
     source_name    |-> source_name_of(idn, kr[1][1]),
     ranks          |-> kr[2].ranks,
     rank_threshold |-> threshold,
     time_display   |-> <<kr[2].first_time, kr[2].last_time>>,
     count          |-> kr[2].count,
     url            |-> kr[2].url,
     mobile_url     |-> kr[2].mobile_url,
     is_new         |-> FALSE]

\* every record that matched some bucket
total_matched(records, rules) ==
    Len(SelectSeq(records, LAMBDA kr : match(kr[1][2], rules) # None))

\* round(100 * count / total) to a whole number, halves up
percentage_of(count, total) ==
    IF total = 0 THEN 0 ELSE (200 * count + total) \div (2 * total)

\* variant: the count of a bucket is the sum of the occurrence counts
bucket_of_sums_occurrences(records, rules, threshold, idn, g) ==
    [word       |-> g.label,
     count      |-> SumCounts(matched_records(records, rules, g.label)),
     percentage |-> percentage_of(
                        Len(matched_records(records, rules, g.label)),
                        total_matched(records, rules)),
     titles     |-> [i \in 1..Len(matched_records(records, rules, g.label)) |->
                        title_entry(matched_records(records, rules, g.label)[i],
                                    threshold, idn)]]

\* the Stat of one word group
bucket_of(records, rules, threshold, idn, g) ==
    [word       |-> g.label,
     count      |-> Len(matched_records(records, rules, g.label)),
     percentage |-> percentage_of(
                        Len(matched_records(records, rules, g.label)),
                        total_matched(records, rules)),
     titles     |-> [i \in 1..Len(matched_records(records, rules, g.label)) |->
                        title_entry(matched_records(records, rules, g.label)[i],
                                    threshold, idn)]]

\* the buckets in declaration order, the empty ones dropped
tallied_buckets(records, rules, threshold, idn) ==
    SelectSeq([i \in 1..Len(rules.word_groups) |->
                  bucket_of(records, rules, threshold, idn, rules.word_groups[i])],
              LAMBDA b : b.count > 0)

\* b goes behind every bucket whose count is at least its own
insert_by_count(sorted, b) ==
    SelectSeq(sorted, LAMBDA x : x.count >= b.count) \o <<b>>
        \o SelectSeq(sorted, LAMBDA x : x.count < b.count)

\* stable sort by count, descending
RECURSIVE sort_by_count(_)
sort_by_count(buckets) ==
    IF buckets = <<>> THEN <<>>
    ELSE insert_by_count(sort_by_count(SubSeq(buckets, 1, Len(buckets) - 1)),
                         buckets[Len(buckets)])

aggregate(records, rules, threshold, idn) ==
    sort_by_count(tallied_buckets(records, rules, threshold, idn))

InitAgg ==
    /\ g_records \in RecordMaps
    /\ g_rules \in AggRuleSets
    /\ g_threshold \in RankThresholds
    /\ g_stats = <<>>
    /\ g_report = NoReport
    /\ g_pc = "start"
    /\ IdleAsm
    /\ IdleMatch
    /\ IdleTier
    /\ IdleNorm
    /\ IdleDay
    /\ IdleRace
    /\ IdlePoll
    /\ IdleWrite
    /\ IdleExport
    /\ IdleRerun
    /\ IdleRegion
    /\ IdleCache

\* the keyword view of the window is computed
Aggregate ==
    /\ g_pc = "start"
    /\ g_stats' = aggregate(g_records, g_rules, g_threshold, KnownNames)
    /\ g_pc' = "aggregated"
    /\ UNCHANGED <<g_records, g_rules, g_threshold, g_report>>
    /\ UNCHANGED agg_frame

\* the result is assembled into the ReportData
AssembleStats ==
    /\ g_pc = "aggregated"
    /\ g_report' = prepare_report_data(g_stats, None, None, KnownNames, "daily",
                                       g_threshold, None, None, TRUE)
    /\ g_pc' = "assembled"
    /\ UNCHANGED <<g_records, g_rules, g_threshold, g_stats>>
    /\ UNCHANGED agg_frame

NextAgg == Aggregate \/ AssembleStats

SpecAgg == InitAgg /\ [][NextAgg]_vars

---------------------------------------------------------------------------
(* New-Item Differ, spec 4.4: diff(records, known_ids, rules, mode,         *)
(* enabled) -> NewTitlesDelta, and the life of the persisted baseline over  *)
(* the windows of one reporting day (spec 3, 4.4, 6): load at window start, *)
(* extend with the window's keys and persist at window end.                 *)
(* known_ids is Optional: None is "baseline absent".  The delta is an       *)
(* ordered mapping source_id -> (title -> data), a sequence of pairs.       *)

\* most windows of one day
MaxWindows == 3

\* the keys a window can hold, in the order a window discovers them
DayKeyOrder == << <<"src1", <<"a">>>>, <<"src1", <<"b">>>>, <<"src2", <<"a">>>> >>

\* the record maps of a window
DayRecordMaps ==
    {[i \in 1..Len(SelectSeq(DayKeyOrder, LAMBDA k : k \in S)) |->
         <<SelectSeq(DayKeyOrder, LAMBDA k : k \in S)[i],
           PoolRecordOf(SelectSeq(DayKeyOrder, LAMBDA k : k \in S)[i])>>] :
        S \in SUBSET Range(DayKeyOrder)}

\* one rule set that leaves titles without "a" unmatched, one that matches all
DayRuleSets ==
    { [word_groups |-> <<[label |-> "ga", kind |-> "all", terms |-> {<<"a">>}]>>,
       filter_words |-> {}, global_filters |-> {}],
      [word_groups |-> <<[label |-> "ga", kind |-> "all", terms |-> {<<"a">>}],
                         [label |-> "gb", kind |-> "all", terms |-> {<<"b">>}]>>,
       filter_words |-> {}, global_filters |-> {}] }

\* <<mode, enabled>> of a window
DaySwitches ==
    {<<"daily", TRUE>>, <<"current", TRUE>>, <<"incremental", TRUE>>,
     <<"daily", FALSE>>}

\* the baselines a day can start from
DayBaselines ==
    {None, Some({}), Some({DayKeyOrder[1]}), Some({DayKeyOrder[1], DayKeyOrder[2]})}

\* the section is suppressed by the mode or by the switch
diff_suppressed(m, enabled) == m = "incremental" \/ ~enabled

\* variant: only an absent baseline counts as no baseline
no_baseline_absent_only(known_ids) == known_ids = None

\* no prior baseline: absent or empty
no_baseline(known_ids) == known_ids = None \/ known_ids.val = {}

\* the candidate records: key absent from known_ids and title matched
new_records(records, known_ids, rules) ==
    SelectSeq(records, LAMBDA kr : /\ kr[1] \notin known_ids.val
                                   /\ match(kr[1][2], rules) # None)

\* the sources of a record sequence, each once, in order of first appearance
sources_of(recs) ==
    [i \in 1..Len(SelectSeq([j \in 1..Len(recs) |-> j],
                            LAMBDA j : \A h \in 1..(j - 1) :
                                           recs[h][1][1] # recs[j][1][1])) |->
        recs[SelectSeq([j \in 1..Len(recs) |-> j],
                       LAMBDA j : \A h \in 1..(j - 1) :
                                      recs[h][1][1] # recs[j][1][1])[i]][1][1]]

\* title -> {url, mobile_url, ranks} for the records of one source
titles_of_source(recs, source_id) ==
    [i \in 1..Len(SelectSeq(recs, LAMBDA kr : kr[1][1] = source_id)) |->
        << SelectSeq(recs, LAMBDA kr : kr[1][1] = source_id)[i][1][2],
           [url        |-> SelectSeq(recs, LAMBDA kr : kr[1][1] = source_id)[i][2].url,
            mobile_url |-> SelectSeq(recs, LAMBDA kr : kr[1][1] = source_id)[i][2].mobile_url,
            ranks      |-> SelectSeq(recs, LAMBDA kr : kr[1][1] = source_id)[i][2].ranks] >>]

\* the NewTitlesDelta of a record sequence
delta_of(recs) ==
    [i \in 1..Len(sources_of(recs)) |->
        <<sources_of(recs)[i], titles_of_source(recs, sources_of(recs)[i])>>]

diff(records, known_ids, rules, m, enabled) ==
    IF diff_suppressed(m, enabled) THEN <<>>
    ELSE IF no_baseline(known_ids) THEN <<>>
    ELSE delta_of(new_records(records, known_ids, rules))

\* the keys of a NewTitlesDelta
delta_keys(delta) ==
    UNION {{<<delta[i][1], delta[i][2][j][1]>> : j \in 1..Len(delta[i][2])} :
           i \in 1..Len(delta)}

\* variant: the baseline is replaced by the keys of the window
extend_ignores_known(known_ids, records) == Some(Range(KeysOf(records)))

\* known_ids extended with all keys of the window
extend(known_ids, records) ==
    Some((IF known_ids = None THEN {} ELSE known_ids.val)
             \cup Range(KeysOf(records)))

InitDay ==
    /\ d_baseline \in DayBaselines
    /\ d_rules \in DayRuleSets
    /\ d_window = 0
    /\ d_records = <<>>
    /\ d_mode = "daily"
    /\ d_enabled = TRUE
    /\ d_known = None
    /\ d_delta = <<>>
    /\ d_announced = {}
    /\ d_repeated = {}
    /\ d_pc = "closed"
    /\ IdleAsm
    /\ IdleMatch
    /\ IdleTier
    /\ IdleNorm
    /\ IdleAgg
    /\ IdleRace
    /\ IdlePoll
    /\ IdleWrite
    /\ IdleExport
    /\ IdleRerun
    /\ IdleRegion
    /\ IdleCache

\* window start: the window's inputs arrive and the baseline is loaded
LoadBaseline ==
    /\ d_pc = "closed"
    /\ d_window < MaxWindows
    /\ d_window' = d_window + 1
    /\ d_records' \in DayRecordMaps
    /\ \E sw \in DaySwitches : d_mode' = sw[1] /\ d_enabled' = sw[2]
    /\ d_known' = d_baseline
    /\ d_delta' = <<>>
    /\ d_pc' = "loaded"
    /\ UNCHANGED <<d_baseline, d_rules, d_announced, d_repeated>>
    /\ UNCHANGED day_frame

\* the temporal view of the window is computed and reported
Diff ==
    /\ d_pc = "loaded"
    /\ d_delta' = diff(d_records, d_known, d_rules, d_mode, d_enabled)
    /\ d_announced' = d_announced \cup delta_keys(d_delta')
    /\ d_repeated' = d_repeated \cup (d_announced \cap delta_keys(d_delta'))
    /\ d_pc' = "diffed"
    /\ UNCHANGED <<d_baseline, d_rules, d_window, d_records, d_mode, d_enabled,
                   d_known>>
    /\ UNCHANGED day_frame

\* window end: the baseline is extended once and written back
ExtendAndPersist ==
    /\ d_pc = "diffed"
    /\ d_baseline' = extend(d_known, d_records)
    /\ d_pc' = "closed"
    /\ UNCHANGED <<d_rules, d_window, d_records, d_mode, d_enabled, d_known,
                   d_delta, d_announced, d_repeated>>
    /\ UNCHANGED day_frame

NextDay == LoadBaseline \/ Diff \/ ExtendAndPersist

SpecDay == InitDay /\ [][NextDay]_vars

---------------------------------------------------------------------------
(* Two concurrent runs for the same source window (spec 5): each run loads  *)
(* the persisted baseline, diffs its own record map against its own copy    *)
(* and writes the extended copy back atomically.  Under single-writer       *)
(* discipline the caller lets a run start only when no other run is between *)
(* its load and its persist; the engine itself takes no lock.               *)

Runs == {1, 2}

Disciplines == {"single_writer", "none"}

\* the caller lets the run load the baseline
may_load_unserialized(discipline, active) == TRUE

\* the caller lets the run load the baseline
may_load(discipline, active) == discipline = "single_writer" => active = {}

InitRace ==
    /\ r_discipline \in Disciplines
    /\ r_initial \in DayBaselines
    /\ r_baseline = r_initial
    /\ r_rules \in DayRuleSets
    /\ r_active = {}
    /\ r_records \in [Runs -> DayRecordMaps]
    /\ r_known = [run \in Runs |-> None]
    /\ r_delta = [run \in Runs |-> <<>>]
    /\ r_pc = [run \in Runs |-> "ready"]
    /\ IdleAsm
    /\ IdleMatch
    /\ IdleTier
    /\ IdleNorm
    /\ IdleAgg
    /\ IdleDay
    /\ IdlePoll
    /\ IdleWrite
    /\ IdleExport
    /\ IdleRerun
    /\ IdleRegion
    /\ IdleCache

\* window start of a run: it reads the persisted baseline
RunLoad(run) ==
    /\ r_pc[run] = "ready"
    /\ may_load(r_discipline, r_active)
    /\ r_active' = r_active \cup {run}
    /\ r_known' = [r_known EXCEPT ![run] = r_baseline]
    /\ r_pc' = [r_pc EXCEPT ![run] = "loaded"]
    /\ UNCHANGED <<r_discipline, r_initial, r_baseline, r_rules, r_records,
                   r_delta>>
    /\ UNCHANGED race_frame

\* the run diffs its records against its copy of known_ids
RunDiff(run) ==
    /\ r_pc[run] = "loaded"
    /\ r_delta' = [r_delta EXCEPT ![run] =
                      diff(r_records[run], r_known[run], r_rules, "daily", TRUE)]
    /\ r_pc' = [r_pc EXCEPT ![run] = "diffed"]
    /\ UNCHANGED <<r_discipline, r_initial, r_baseline, r_rules, r_active,
                   r_records, r_known>>
    /\ UNCHANGED race_frame

\* window end of a run: it writes its extended copy back atomically
RunPersist(run) ==
    /\ r_pc[run] = "diffed"
    /\ r_baseline' = extend(r_known[run], r_records[run])
    /\ r_active' = r_active \ {run}
    /\ r_pc' = [r_pc EXCEPT ![run] = "done"]
    /\ UNCHANGED <<r_discipline, r_initial, r_rules, r_records, r_known,
                   r_delta>>
    /\ UNCHANGED race_frame

RunLoads == \E run \in Runs : RunLoad(run)

RunDiffs == \E run \in Runs : RunDiff(run)

RunPersists == \E run \in Runs : RunPersist(run)

NextRace == RunLoads \/ RunDiffs \/ RunPersists

SpecRace == InitRace /\ [][NextRace]_vars

---------------------------------------------------------------------------
(* The keyword view under repeated polls: the window is normalized and      *)
(* aggregated (spec 4.2, 4.3), a title already in the window is observed    *)
(* again, and the window is normalized and aggregated again.                *)

\* most observations of the window before its first aggregation
MaxPolled == 2
\* most further polls of a title already in the window
MaxRepolls == 2

InitPoll ==
    /\ p_obs \in SeqsUpTo(ObsPool, MaxPolled)
    /\ p_rules \in DayRuleSets
    /\ p_stats = <<>>
    /\ p_prev = <<>>
    /\ p_repolls = 0
    /\ p_pc = "polled"
    /\ IdleAsm
    /\ IdleMatch
    /\ IdleTier
    /\ IdleNorm
    /\ IdleAgg
    /\ IdleDay
    /\ IdleRace
    /\ IdleWrite
    /\ IdleExport
    /\ IdleRerun
    /\ IdleRegion
    /\ IdleCache

\* the window so far is normalized and aggregated
AggregateWindow ==
    /\ p_pc = "polled"
    /\ p_stats' = aggregate(normalize(p_obs), p_rules, 5, KnownNames)
    /\ p_prev' = p_stats
    /\ p_pc' = "aggregated"
    /\ UNCHANGED <<p_obs, p_rules, p_repolls>>
    /\ UNCHANGED poll_frame

\* a further poll observes a title that the window already holds
PollAgain ==
    /\ p_pc = "aggregated"
    /\ p_repolls < MaxRepolls
    /\ \E o \in ObsPool :
          /\ ~Malformed(o)
          /\ HasKey(normalize(p_obs), KeyOf(o))
          /\ p_obs' = Append(p_obs, o)
    /\ p_repolls' = p_repolls + 1
    /\ p_pc' = "polled"
    /\ UNCHANGED <<p_rules, p_stats, p_prev>>
    /\ UNCHANGED poll_frame

NextPoll == AggregateWindow \/ PollAgain

SpecPoll == InitPoll /\ [][NextPoll]_vars

---------------------------------------------------------------------------
(* The file writes of generate_html_report, generator.py:185-236, one step  *)
(* per open/write.  A path is a sequence of components; the content of a    *)
(* file is a record, [kind |-> "absent"] for a file that does not exist.    *)
(* A failing step raises out of the call: either the open fails and the     *)
(* file is untouched, or the file was opened (truncated) and the write      *)
(* fails.                                                                   *)

\* generator.py:186-191: output/html/<date_folder>/<time_filename>.html
snapshot_file == <<"output", "html", "date_folder", "time_filename.html">>

\* generator.py:219-221: output/html/latest/<mode>.html
latest_file(m) == <<"output", "html", "latest", m>>

\* generator.py:227
output_index == <<"output", "index.html">>

\* generator.py:232
root_index == <<"index.html">>

\* the four paths in the order of the code
write_order(m) == <<snapshot_file, latest_file(m), output_index, root_index>>

\* generator.py:206-212: the rendered content
html_content_of(render, m) == [kind |-> "html", renderer |-> render, mode |-> m]

PreviousContents == {[kind |-> "absent"], [kind |-> "previous"]}

Truncated == [kind |-> "truncated"]

\* the step of the call that writes the i-th file
WriteSteps == <<"snapshot", "latest", "output_index", "root_index">>

StepIndex(step) == CHOOSE i \in 1..4 : WriteSteps[i] = step

InitWrite ==
    /\ w_mode \in Modes
    /\ w_render \in {"None", "render_html_content"}
    /\ w_files \in [Range(write_order(w_mode)) -> PreviousContents]
    /\ w_before = w_files
    /\ w_content = [kind |-> "none"]
    /\ w_log = <<>>
    /\ w_returned = None
    /\ w_pc = "start"
    /\ IdleAsm
    /\ IdleMatch
    /\ IdleTier
    /\ IdleNorm
    /\ IdleAgg
    /\ IdleDay
    /\ IdleRace
    /\ IdlePoll
    /\ IdleExport
    /\ IdleRerun
    /\ IdleRegion
    /\ IdleCache

\* generator.py:185-212: directories, report data and rendering
RenderContent ==
    /\ w_pc = "start"
    /\ w_content' = html_content_of(w_render, w_mode)
    /\ w_pc' = "snapshot"
    /\ UNCHANGED <<w_mode, w_render, w_files, w_before, w_log, w_returned>>
    /\ UNCHANGED write_frame

\* generator.py:185-212: mkdir, the assembler or the renderer raises
RenderRaises ==
    /\ w_pc = "start"
    /\ w_pc' = "raised"
    /\ UNCHANGED <<w_mode, w_render, w_files, w_before, w_content, w_log,
                   w_returned>>
    /\ UNCHANGED write_frame

\* variant: the entry files are written before the latest report
write_target_entry_first(m, step) ==
    <<snapshot_file, output_index, latest_file(m), root_index>>[StepIndex(step)]

\* the file a step writes
write_target(m, step) == write_order(m)[StepIndex(step)]

\* the step after a write
next_step(step) ==
    IF StepIndex(step) = 4 THEN "return" ELSE WriteSteps[StepIndex(step) + 1]

\* generator.py:214-234: one "with open(..., 'w') as f: f.write(html_content)"
WriteFile ==
    /\ w_pc \in Range(WriteSteps)
    /\ w_files' = [w_files EXCEPT ![write_target(w_mode, w_pc)] = w_content]
    /\ w_log' = Append(w_log, write_target(w_mode, w_pc))
    /\ w_pc' = next_step(w_pc)
    /\ UNCHANGED <<w_mode, w_render, w_before, w_content, w_returned>>
    /\ UNCHANGED write_frame

\* the open of the step fails: the file is untouched and the call raises
OpenFails ==
    /\ w_pc \in Range(WriteSteps)
    /\ w_pc' = "raised"
    /\ UNCHANGED <<w_mode, w_render, w_files, w_before, w_content, w_log,
                   w_returned>>
    /\ UNCHANGED write_frame

\* the file was opened for writing and the write fails: the call raises
WriteFails ==
    /\ w_pc \in Range(WriteSteps)
    /\ w_files' = [w_files EXCEPT ![write_target(w_mode, w_pc)] = Truncated]
    /\ w_pc' = "raised"
    /\ UNCHANGED <<w_mode, w_render, w_before, w_content, w_log, w_returned>>
    /\ UNCHANGED write_frame

\* generator.py:236
ReturnSnapshotFile ==
    /\ w_pc = "return"
    /\ w_returned' = Some(snapshot_file)
    /\ w_pc' = "done"
    /\ UNCHANGED <<w_mode, w_render, w_files, w_before, w_content, w_log>>
    /\ UNCHANGED write_frame

NextWrite ==
    \/ RenderContent
    \/ RenderRaises
    \/ WriteFile
    \/ OpenFails
    \/ WriteFails
    \/ ReturnSnapshotFile

SpecWrite == InitWrite /\ [][NextWrite]_vars

---------------------------------------------------------------------------
(* The export tools, export_tools.py, and their REST handlers, rest_api.py. *)
(* The validators and the data service are outside the repository: each is  *)
(* an outcome, [type |-> "ok", ...] or a raised exception [type, code].     *)
(* A text is modelled by its structure: a CSV text is its sequence of rows  *)
(* ("" is no row at all), a JSON text is [json |-> value].                  *)

\* most items the data service returns
MaxItems == 2

ExportOps ==
    {"export_news_csv", "export_news_json", "export_rss_csv", "export_rss_json"}

\* rest_api.py:63-85: a handler whose tool is not an export tool
DataOps == {"get_latest_news"}

\* rest_api.py:326-418: the export operations that have an endpoint
RestOps == {"export_news_csv", "export_news_json", "export_rss_csv",
            "get_latest_news"}

CsvOps == {"export_news_csv", "export_rss_csv"}

NewsOps == {"export_news_csv", "export_news_json"}

Ok == [type |-> "ok"]

\* exceptions: an MCPError of a validator or of the service, any other Exception
Raised ==
    {[type |-> "MCPError", code |-> "INVALID_PARAMETER"],
     [type |-> "Exception", code |-> "ValueError"]}

\* what the data service hands back: dicts with or without every key, and
\* an entry that is not a dict
ItemPool ==
    {[title |-> "A", rank |-> 1, url |-> "http://a"], [title |-> "B"],
     [not_a_dict |-> TRUE]}

IsDict(item) == "not_a_dict" \notin DOMAIN item

ServiceOutcomes ==
    {[type |-> "ok", items |-> q] : q \in SeqsUpTo(ItemPool, MaxItems)}
        \cup Raised

\* export_tools.py:65-69, 281-282: the validators run
validators_called(op, limit_given) == op \in NewsOps \/ limit_given

\* export_tools.py:92-94, 304-306
fieldnames_of(op, include) ==
    IF op \in NewsOps
    THEN <<"date", "time", "platform", "title", "rank", "hotness">>
             \o (IF include THEN <<"url">> ELSE <<>>)
    ELSE <<"date", "feed_id", "feed_name", "title", "url", "published">>
             \o (IF include THEN <<"summary">> ELSE <<>>)

\* export_tools.py:100-111: the row of an item, item.get(key, '')
row_of(item, fieldnames) ==
    [i \in 1..Len(fieldnames) |-> Get(item, fieldnames[i], "")]

\* variant: the header row is left out
csv_content_no_header(items, fieldnames) ==
    [i \in 1..Len(items) |-> row_of(items[i], fieldnames)]

\* export_tools.py:96-113: the header row and one row per item
csv_content(items, fieldnames) ==
    <<fieldnames>> \o [i \in 1..Len(items) |-> row_of(items[i], fieldnames)]

\* export_tools.py:77-87, 191-201: nothing to export
empty_result(op) ==
    IF op \in CsvOps
    THEN [success |-> TRUE,
          summary |-> [total |-> 0, format |-> "csv"],
          data    |-> [csv_content |-> <<>>, row_count |-> 0]]
    ELSE [success |-> TRUE,
          summary |-> [total |-> 0, format |-> "json"],
          data    |-> [json_content |-> [json |-> <<>>], item_count |-> 0]]

\* export_tools.py:115-130, 203-235: the export of a non-empty list
full_result(op, include, items) ==
    IF op \in CsvOps
    THEN [success |-> TRUE,
          summary |-> [total |-> Len(items), format |-> "csv"],
          data    |-> [csv_content |-> csv_content(items, fieldnames_of(op, include)),
                       row_count   |-> Len(items),
                       columns     |-> fieldnames_of(op, include)]]
    ELSE [success |-> TRUE,
          summary |-> [total |-> Len(items), format |-> "json"],
          data    |-> [json_content |->
                           [json |-> [metadata |-> [total_items |-> Len(items)],
                                      items    |-> items]],
                       item_count   |-> Len(items)]]

\* export_tools.py:132-144: the two except clauses
error_result(e) ==
    IF e.type = "MCPError"
    THEN [success |-> FALSE, error |-> [code |-> e.code]]
    ELSE [success |-> FALSE,
          error |-> [code |-> "EXPORT_ERROR", message |-> e.code]]

\* variant: only MCPError is caught
caught_mcp_only(e) == e.type = "MCPError"

\* export_tools.py:132, 137: "except MCPError" and "except Exception"
caught(e) == e.type \in {"MCPError", "Exception"}

\* how the run of the try block ends: a returned dict or a raised exception
try_block(op, include, limit_given, validation, service) ==
    IF validators_called(op, limit_given) /\ validation # Ok
    THEN [raised |-> TRUE, e |-> validation]
    ELSE IF service.type # "ok" THEN [raised |-> TRUE, e |-> service]
    ELSE IF service.items = <<>>
    THEN [raised |-> FALSE, value |-> empty_result(op)]
    ELSE IF op \in CsvOps /\ \E i \in 1..Len(service.items) : ~IsDict(service.items[i])
    THEN [raised |-> TRUE, e |-> [type |-> "Exception", code |-> "AttributeError"]]
    ELSE [raised |-> FALSE, value |-> full_result(op, include, service.items)]

\* export_tools.py:62-144, 146-268, 270-352, 354-449: one export operation
export_tool(op, include, limit_given, validation, service) ==
    IF ~try_block(op, include, limit_given, validation, service).raised
    THEN try_block(op, include, limit_given, validation, service)
    ELSE IF caught(try_block(op, include, limit_given, validation, service).e)
    THEN [raised |-> FALSE,
          value  |-> error_result(
                         try_block(op, include, limit_given, validation, service).e)]
    ELSE try_block(op, include, limit_given, validation, service)

\* a tool outside the repository: it returns what the service gave or raises
data_tool(service) ==
    IF service.type = "ok"
    THEN [raised |-> FALSE, value |-> [success |-> TRUE, data |-> service.items]]
    ELSE [raised |-> TRUE, e |-> service]

\* rest_api.py:84-85: HTTPException(status_code=500, detail=str(e))
http_500(e) == [status |-> 500, detail |-> e.code]

\* variant: a successful CSV export is always sent as an attachment
csv_attachment_always(op, result) == op \in CsvOps /\ result.success

\* rest_api.py:347, 407: the CSV is sent as an attachment
csv_attachment(op, result) ==
    /\ op \in CsvOps
    /\ result.success
    /\ Get(Get(result, "data", <<>>), "csv_content", <<>>) # <<>>

\* rest_api.py:337-358: the response to a returned result
rest_response(op, result) ==
    IF csv_attachment(op, result)
    THEN [status |-> 200, media_type |-> "text/csv",
          body |-> result.data.csv_content]
    ELSE [status |-> 200, media_type |-> "application/json", body |-> result]

\* the defaults the handlers leave to the tool: include_url, include_summary
DefaultInclude(op) == op \in NewsOps

InitExport ==
    /\ x_op \in ExportOps \cup DataOps
    /\ x_entry \in {"tool", "rest"}
    /\ x_entry = "rest" => x_op \in RestOps
    /\ x_entry = "tool" => x_op \in ExportOps
    /\ x_include \in BOOLEAN
    /\ x_entry = "rest" => x_include = DefaultInclude(x_op)
    /\ x_limit_given \in BOOLEAN
    /\ x_entry = "rest" => x_limit_given
    /\ x_tools \in {Ok, [type |-> "Exception", code |-> "ImportError"]}
    /\ x_entry = "tool" => x_tools = Ok
    /\ x_validation \in {Ok} \cup Raised
    /\ x_service \in ServiceOutcomes
    /\ x_outcome = None
    /\ x_response = None
    /\ x_pc = "start"
    /\ IdleAsm
    /\ IdleMatch
    /\ IdleTier
    /\ IdleNorm
    /\ IdleAgg
    /\ IdleDay
    /\ IdleRace
    /\ IdlePoll
    /\ IdleWrite
    /\ IdleRerun
    /\ IdleRegion
    /\ IdleCache

\* rest_api.py:75, 84-85: _get_tools raises in the handler
HandlerToolsFail ==
    /\ x_pc = "start"
    /\ x_entry = "rest"
    /\ x_tools # Ok
    /\ x_response' = Some(http_500(x_tools))
    /\ x_pc' = "responded"
    /\ UNCHANGED <<x_op, x_entry, x_include, x_limit_given, x_tools,
                   x_validation, x_service, x_outcome>>
    /\ UNCHANGED export_frame

\* an export operation runs
CallExportTool ==
    /\ x_pc = "start"
    /\ x_tools = Ok
    /\ x_op \in ExportOps
    /\ x_outcome' = Some(export_tool(x_op, x_include, x_limit_given,
                                     x_validation, x_service))
    /\ x_pc' = "returned"
    /\ UNCHANGED <<x_op, x_entry, x_include, x_limit_given, x_tools,
                   x_validation, x_service, x_response>>
    /\ UNCHANGED export_frame

\* the tool of another handler runs
CallDataTool ==
    /\ x_pc = "start"
    /\ x_tools = Ok
    /\ x_op \in DataOps
    /\ x_outcome' = Some(data_tool(x_service))
    /\ x_pc' = "returned"
    /\ UNCHANGED <<x_op, x_entry, x_include, x_limit_given, x_tools,
                   x_validation, x_service, x_response>>
    /\ UNCHANGED export_frame

\* rest_api.py:83, 347-356: the handler answers with the result
HandlerReturns ==
    /\ x_pc = "returned"
    /\ x_entry = "rest"
    /\ ~x_outcome.val.raised
    /\ x_response' = Some(rest_response(x_op, x_outcome.val.value))
    /\ x_pc' = "responded"
    /\ UNCHANGED <<x_op, x_entry, x_include, x_limit_given, x_tools,
                   x_validation, x_service, x_outcome>>
    /\ UNCHANGED export_frame

\* rest_api.py:84-85, 357-358: the tool call raised
HandlerCatches ==
    /\ x_pc = "returned"
    /\ x_entry = "rest"
    /\ x_outcome.val.raised
    /\ x_response' = Some(http_500(x_outcome.val.e))
    /\ x_pc' = "responded"
    /\ UNCHANGED <<x_op, x_entry, x_include, x_limit_given, x_tools,
                   x_validation, x_service, x_outcome>>
    /\ UNCHANGED export_frame

NextExport ==
    \/ HandlerToolsFail
    \/ CallExportTool
    \/ CallDataTool
    \/ HandlerReturns
    \/ HandlerCatches

SpecExport == InitExport /\ [][NextExport]_vars

---------------------------------------------------------------------------
(* Aggregation (spec 4.3) and assembly (generator.py:14-139) run more than  *)
(* once on the same inputs.  The arguments are state, so that a run which   *)
(* changed one of them in place would show.                                 *)

\* most runs on the same inputs
MaxRuns == 2

InitRerun ==
    /\ k_records \in RecordMaps
    /\ k_rules \in DayRuleSets
    /\ k_delta \in {None, SampleDelta}
    /\ k_id_to_name \in {Some(<<>>), KnownNames}
    /\ k_mode \in Modes
    /\ k_threshold = 5
    /\ k_stats = <<>>
    /\ k_given = <<k_records, k_delta, k_id_to_name>>
    /\ k_reports = <<>>
    /\ k_pc = "start"
    /\ IdleAsm
    /\ IdleMatch
    /\ IdleTier
    /\ IdleNorm
    /\ IdleAgg
    /\ IdleDay
    /\ IdleRace
    /\ IdlePoll
    /\ IdleWrite
    /\ IdleExport
    /\ IdleRegion
    /\ IdleCache

\* the record map is aggregated; the run reads its arguments only
RunAggregate ==
    /\ k_pc = "start"
    /\ Len(k_reports) < MaxRuns
    /\ k_stats' = aggregate(k_records, k_rules, k_threshold, k_id_to_name)
    /\ k_pc' = "aggregated"
    /\ UNCHANGED <<k_records, k_rules, k_delta, k_id_to_name, k_mode,
                   k_threshold, k_given, k_reports>>
    /\ UNCHANGED rerun_frame

\* variant: the assembly empties the lists it reads
RunAssemble_consumes_inputs ==
    /\ k_pc = "aggregated"
    /\ k_reports' = Append(k_reports,
                           prepare_report_data(k_stats, None, k_delta,
                                               k_id_to_name, k_mode, k_threshold,
                                               None, None, TRUE))
    /\ k_stats' = <<>>
    /\ k_delta' = IF k_delta = None THEN None ELSE Some(<<>>)
    /\ k_pc' = "start"
    /\ UNCHANGED <<k_records, k_rules, k_id_to_name, k_mode, k_threshold,
                   k_given>>
    /\ UNCHANGED rerun_frame

\* generator.py:42-139: the assembly builds new lists and dicts and assigns
\* to none of its arguments
RunAssemble ==
    /\ k_pc = "aggregated"
    /\ k_reports' = Append(k_reports,
                           prepare_report_data(k_stats, None, k_delta,
                                               k_id_to_name, k_mode, k_threshold,
                                               None, None, TRUE))
    /\ k_pc' = "start"
    /\ UNCHANGED <<k_records, k_rules, k_delta, k_id_to_name, k_mode,
                   k_threshold, k_stats, k_given>>
    /\ UNCHANGED rerun_frame

NextRerun == RunAggregate \/ RunAssemble

SpecRerun == InitRerun /\ [][NextRerun]_vars

---------------------------------------------------------------------------
(* The region assembly of render_html_content, html.py:50-53, 2109-2159.    *)
(* A rendered part is the empty string, <<>>, or a block: the sequence of   *)
(* the class attributes of its elements, the outer div first, each a        *)
(* sequence of class names.                                                 *)

\* longest region_order
MaxRegions == 3

\* html.py:2120-2126: the keys of region_contents
RegionNames == {"hotlist", "rss", "new_items", "standalone", "ai_analysis"}

\* html.py:51
default_region_order ==
    <<"hotlist", "rss", "new_items", "standalone", "ai_analysis">>

\* the rendered parts
Parts == {"stats", "rss_stats", "new_titles", "rss_new", "standalone", "ai"}

\* html.py:1718-1720, 1725-1727, 1819-1824, 1944-1949: the block of a part.
\* The AI block comes from trendradar.ai.formatter and is taken to have a
\* class attribute on its outer div like the others.
block_of(part) ==
    IF part = "stats" THEN << <<"hotlist-section">>, <<"word-group">> >>
    ELSE IF part = "rss_stats"
    THEN << <<"rss-section">>, <<"rss-section-header", "subscribed">> >>
    ELSE IF part = "new_titles"
    THEN << <<"new-section">>, <<"new-section-title">> >>
    ELSE IF part = "rss_new"
    THEN << <<"rss-section">>, <<"rss-section-header", "new">> >>
    ELSE IF part = "standalone"
    THEN << <<"standalone-section">>, <<"standalone-section-header">> >>
    ELSE << <<"ai-section">> >>

\* the content of a part
part_html(part, nonempty) == IF part \in nonempty THEN block_of(part) ELSE <<>>

\* html.py:2120-2126 and region_contents.get(region, "")
region_content(region, nonempty) ==
    IF region = "hotlist" THEN part_html("stats", nonempty)
    ELSE IF region = "rss" THEN part_html("rss_stats", nonempty)
    ELSE IF region = "new_items"
    THEN <<part_html("new_titles", nonempty), part_html("rss_new", nonempty)>>
    ELSE IF region = "standalone" THEN part_html("standalone", nonempty)
    ELSE IF region = "ai_analysis" THEN part_html("ai", nonempty)
    ELSE <<>>

\* html.py:2128-2136: the first class attribute gets "section-divider "
add_section_divider(content) ==
    IF content = <<>> THEN content
    ELSE [content EXCEPT ![1] = <<"section-divider">> \o @]

\* variant: the divider is added whether or not a block came before
with_divider_always(content, has_previous) == add_section_divider(content)

\* html.py:2146-2147, 2151-2152, 2155-2156
with_divider(content, has_previous) ==
    IF has_previous THEN add_section_divider(content) ELSE content

\* html.py:52-53
effective_order(region_order) ==
    IF region_order = None THEN default_region_order ELSE region_order.val

RegionOrders ==
    {None} \cup {Some(q) : q \in SeqsUpTo(RegionNames \cup {"sidebar"}, MaxRegions)}

InitRegion ==
    /\ o_region_order \in RegionOrders
    /\ o_nonempty \in SUBSET Parts
    /\ o_idx = 1
    /\ o_has_previous = FALSE
    /\ o_html = <<>>
    /\ o_pc = "loop"
    /\ IdleAsm
    /\ IdleMatch
    /\ IdleTier
    /\ IdleNorm
    /\ IdleAgg
    /\ IdleDay
    /\ IdleRace
    /\ IdlePoll
    /\ IdleWrite
    /\ IdleExport
    /\ IdleRerun
    /\ IdleCache

\* the loop stands at a region
AtRegion ==
    /\ o_pc = "loop"
    /\ o_idx <= Len(effective_order(o_region_order))

CurrentRegion == effective_order(o_region_order)[o_idx]

\* html.py:2141-2153: the new_items region, two parts handled one by one
AssembleNewItems ==
    /\ AtRegion
    /\ CurrentRegion = "new_items"
    /\ o_html' =
           o_html
           \o (IF region_content("new_items", o_nonempty)[1] # <<>>
               THEN <<with_divider(region_content("new_items", o_nonempty)[1],
                                   o_has_previous)>>
               ELSE <<>>)
           \o (IF region_content("new_items", o_nonempty)[2] # <<>>
               THEN <<with_divider(region_content("new_items", o_nonempty)[2],
                                   o_has_previous
                                   \/ region_content("new_items", o_nonempty)[1] # <<>>)>>
               ELSE <<>>)
    /\ o_has_previous' =
           (\/ o_has_previous
            \/ region_content("new_items", o_nonempty)[1] # <<>>
            \/ region_content("new_items", o_nonempty)[2] # <<>>)
    /\ o_idx' = o_idx + 1
    /\ UNCHANGED <<o_region_order, o_nonempty, o_pc>>
    /\ UNCHANGED region_frame

\* html.py:2154-2158: a region with content
AssembleRegion ==
    /\ AtRegion
    /\ CurrentRegion # "new_items"
    /\ region_content(CurrentRegion, o_nonempty) # <<>>
    /\ o_html' = Append(o_html,
                        with_divider(region_content(CurrentRegion, o_nonempty),
                                     o_has_previous))
    /\ o_has_previous' = TRUE
    /\ o_idx' = o_idx + 1
    /\ UNCHANGED <<o_region_order, o_nonempty, o_pc>>
    /\ UNCHANGED region_frame

\* html.py:2140, 2154: an empty region or a name that is no region
SkipRegion ==
    /\ AtRegion
    /\ CurrentRegion # "new_items"
    /\ region_content(CurrentRegion, o_nonempty) = <<>>
    /\ o_idx' = o_idx + 1
    /\ UNCHANGED <<o_region_order, o_nonempty, o_has_previous, o_html, o_pc>>
    /\ UNCHANGED region_frame

\* the loop is over
AssemblyDone ==
    /\ o_pc = "loop"
    /\ o_idx > Len(effective_order(o_region_order))
    /\ o_pc' = "done"
    /\ UNCHANGED <<o_region_order, o_nonempty, o_idx, o_has_previous, o_html>>
    /\ UNCHANGED region_frame

NextRegion ==
    \/ AssembleNewItems
    \/ AssembleRegion
    \/ SkipRegion
    \/ AssemblyDone

SpecRegion == InitRegion /\ [][NextRegion]_vars

---------------------------------------------------------------------------
(* The tools bundle of the REST API, rest_api.py:16-26, and its handlers.   *)
(* Every handler is a coroutine of the one event loop started by            *)
(* run_rest_api: it runs without interruption from its start to its first   *)
(* await, so the call of _get_tools and the start of the worker thread are  *)
(* one step; the worker thread ends in a later step.                        *)

\* number of concurrent requests
MaxRequests == 3

Requests == 1..MaxRequests

\* rest_api.py:75-467: the keys of the bundle the handlers use, and the
\* health endpoint, which uses none
Endpoints == {"data", "export", "analytics", "health"}

\* a tool instance: the bundle it belongs to and its key
Instance(bundle, key) == [bundle |-> bundle, key |-> key]

InitCache ==
    /\ c_tools_cache = None
    /\ c_created = 0
    /\ c_endpoint \in [Requests -> Endpoints]
    /\ c_pc = [r \in Requests |-> "start"]
    /\ c_passed = [r \in Requests |-> None]
    /\ IdleAsm
    /\ IdleMatch
    /\ IdleTier
    /\ IdleNorm
    /\ IdleAgg
    /\ IdleDay
    /\ IdleRace
    /\ IdlePoll
    /\ IdleWrite
    /\ IdleExport
    /\ IdleRerun
    /\ IdleRegion

\* variant: the assignment is made on every call
tools_cache_after_unchecked(cache, fresh) == Some(fresh)

\* rest_api.py:23-25: the cache after a call whose get_mcp_tools() would
\* return the bundle fresh
tools_cache_after(cache, fresh) == IF cache = None THEN Some(fresh) ELSE cache

\* rest_api.py:74-80: _get_tools returns and the worker thread is started
\* with the tool of the endpoint
HandlerStartsThread(r) ==
    /\ c_pc[r] = "start"
    /\ c_endpoint[r] # "health"
    /\ c_tools_cache' = tools_cache_after(c_tools_cache, c_created + 1)
    /\ c_created' = IF c_tools_cache' # c_tools_cache
                    THEN c_created + 1
                    ELSE c_created
    /\ c_passed' =
           [c_passed EXCEPT ![r] = Some(Instance(c_tools_cache'.val,
                                                 c_endpoint[r]))]
    /\ c_pc' = [c_pc EXCEPT ![r] = "thread"]
    /\ UNCHANGED c_endpoint
    /\ UNCHANGED cache_frame

\* rest_api.py:23-25, 84-85: the import or get_mcp_tools() raises; the cache
\* stays None and the handler answers 500
GetToolsRaises(r) ==
    /\ c_pc[r] = "start"
    /\ c_endpoint[r] # "health"
    /\ c_tools_cache = None
    /\ c_pc' = [c_pc EXCEPT ![r] = "error500"]
    /\ UNCHANGED <<c_tools_cache, c_created, c_endpoint, c_passed>>
    /\ UNCHANGED cache_frame

\* rest_api.py:76-83: the worker thread returns and the handler resumes
ThreadReturns(r) ==
    /\ c_pc[r] = "thread"
    /\ c_pc' = [c_pc EXCEPT ![r] = "returned"]
    /\ UNCHANGED <<c_tools_cache, c_created, c_endpoint, c_passed>>
    /\ UNCHANGED cache_frame

\* rest_api.py:84-85: the worker thread raises
ThreadRaises(r) ==
    /\ c_pc[r] = "thread"
    /\ c_pc' = [c_pc EXCEPT ![r] = "error500"]
    /\ UNCHANGED <<c_tools_cache, c_created, c_endpoint, c_passed>>
    /\ UNCHANGED cache_frame

\* rest_api.py:51-58: the health endpoint asks for no tools
HealthCheck(r) ==
    /\ c_pc[r] = "start"
    /\ c_endpoint[r] = "health"
    /\ c_pc' = [c_pc EXCEPT ![r] = "returned"]
    /\ UNCHANGED <<c_tools_cache, c_created, c_endpoint, c_passed>>
    /\ UNCHANGED cache_frame

NextCache ==
    \/ \E r \in Requests : HandlerStartsThread(r)
    \/ \E r \in Requests : GetToolsRaises(r)
    \/ \E r \in Requests : ThreadReturns(r)
    \/ \E r \in Requests : ThreadRaises(r)
    \/ \E r \in Requests : HealthCheck(r)

SpecCache == InitCache /\ [][NextCache]_vars

---------------------------------------------------------------------------
(* Vocabulary of the properties *)

\* prepare_report_data has returned
Done == pc \in {"done", "rendered"}

\* the (source_id, title) keys of the delta handed to the assembler
DeltaPairs ==
    IF new_titles.some
    THEN UNION {{<<g[1], p[1]>> : p \in Range(g[2])} : g \in Range(new_titles.val)}
    ELSE {}

\* the (source_id, title) keys shown in ReportData.new_titles
OutPairs ==
    UNION {{<<g.source_id, e.title>> : e \in Range(g.titles)} :
           g \in Range(report_data.new_titles)}

\* the Title Matcher accepts the title under the configured rule set
MatcherAccepts(title) ==
    /\ matches_word_groups_func.some
    /\ load_frequency_words_func.some
    /\ title \in matches_word_groups_func.val

\* the title passes the filter the assembler applies: the matcher's verdict
\* when both callables are supplied, every title otherwise
Survives(title) ==
    (matches_word_groups_func.some /\ load_frequency_words_func.some)
        => title \in matches_word_groups_func.val

\* the section is hidden for the arguments the assembler received
Hidden == mode = "incremental" \/ ~assembler_show

NewIsEmpty == report_data.new_titles = <<>> /\ report_data.total_new_count = 0

---------------------------------------------------------------------------
(* C1 *)

\* C1: whenever a report is assembled with mode = "incremental", new_titles
\* is empty and total_new_count is 0, whatever the other arguments are.
C1_IncrementalSuppressesNew ==
    (Done /\ mode = "incremental") => NewIsEmpty

\* an incremental report over a non-empty delta of known sources, section on
C1_Witness ==
    /\ Done
    /\ mode = "incremental"
    /\ assembler_show
    /\ Truthy(id_to_name)
    /\ \E pr \in DeltaPairs : Survives(pr[2])

(* C2 *)

\* C2: in mode daily or current, an assembler called with
\* show_new_section = false returns new_titles = [] and total_new_count = 0.
C2_DisabledSuppressesNew ==
    (Done /\ mode \in {"daily", "current"} /\ ~assembler_show) => NewIsEmpty

\* a daily report with the section switched off over a non-empty delta
C2_Witness ==
    /\ Done
    /\ mode = "daily"
    /\ ~assembler_show
    /\ Truthy(id_to_name)
    /\ \E pr \in DeltaPairs : Survives(pr[2])

(* C3 *)

\* C3: for every caller, the new-item section is part of the report exactly
\* when mode is not incremental, the configured show_new_section is true and
\* the filtered delta is non-empty; a report produced by generate_html_report
\* carries the section in its HTML under exactly the same condition.
C3_GatedOnceCentrally ==
    Done =>
        LET wanted ==
                /\ mode # "incremental"
                /\ show_new_section
                /\ filtered_new_count(
                       filtered_new_titles(new_titles, id_to_name,
                                           matches_word_groups_func,
                                           load_frequency_words_func)) > 0
        IN  /\ (report_data.new_titles # <<>>) <=> wanted
            /\ entry = "generate_html_report" => (html_new_section <=> wanted)

(* C4 *)

\* C4: every bucket of ReportData.stats has count > 0, and the buckets of
\* the output are exactly the input buckets with count > 0 (none of those is
\* dropped, none with count <= 0 is kept).
C4_PositiveCountsOnly ==
    Done =>
        /\ \A i \in 1..Len(report_data.stats) : report_data.stats[i].count > 0
        /\ \A j \in 1..Len(stats) :
               (stats[j].count > 0) <=>
                   (\E i \in 1..Len(report_data.stats) :
                        report_data.stats[i].word = stats[j].word)
        /\ Len(report_data.stats) =
               Cardinality({j \in 1..Len(stats) : stats[j].count > 0})

\* a call whose stats hold a zero-count bucket and a positive one
C4_Witness ==
    /\ Done
    /\ \E j \in 1..Len(stats) : stats[j].count = 0
    /\ \E j \in 1..Len(stats) : stats[j].count > 0
    /\ Len(report_data.stats) = 1

(* C5 *)

\* C5: every bucket of ReportData.stats satisfies count = len(titles).
C5_CountIsLenTitles ==
    Done =>
        \A i \in 1..Len(report_data.stats) :
            report_data.stats[i].count = Len(report_data.stats[i].titles)

(* C6 *)

\* a bucket whose count differs from the number of its title entries
Inconsistent(stat) == stat.count # Len(stat.titles)

\* C6: a call given a bucket whose count differs from the number of its
\* title entries ends in an error outcome, never in a returned ReportData.
C6_InconsistencySurfaced ==
    (pc # "start" /\ \E j \in 1..Len(stats) : Inconsistent(stats[j]))
        => pc = "raised"

(* C7 *)

\* the name the claim expects for a source: its display name when known,
\* the raw id otherwise
ExpectedName(source_id) ==
    IF id_to_name.some /\ \E p \in Range(id_to_name.val) : p[1] = source_id
    THEN (CHOOSE p \in Range(id_to_name.val) : p[1] = source_id)[2]
    ELSE source_id

\* C7: when the section is not hidden, every source of the delta with a
\* title that survives the filter has a group in new_titles, named by
\* id_to_name when the id is known and by the raw id otherwise, for every
\* id_to_name mapping.
C7_EverySourceResolved ==
    (Done /\ ~Hidden) =>
        \A pr \in DeltaPairs :
            Survives(pr[2]) =>
                \E g \in Range(report_data.new_titles) :
                    /\ g.source_id = pr[1]
                    /\ g.source_name = ExpectedName(pr[1])

(* C8 *)

\* C8: total_new_count is the number of title entries over all groups of
\* new_titles, each of them a delta title that passed the filter.
C8_TotalCountsShownTitles ==
    Done =>
        /\ report_data.total_new_count =
               Cardinality({<<i, j>> \in
                               (1..Len(report_data.new_titles)) \X (1..MaxNewTitles) :
                            j <= Len(report_data.new_titles[i].titles)})
        /\ report_data.total_new_count = Cardinality(OutPairs)
        /\ OutPairs \subseteq {pr \in DeltaPairs : Survives(pr[2])}

\* a shown section with two groups, fewer titles than the raw delta holds
C8_Witness ==
    /\ Done
    /\ Len(report_data.new_titles) = 2
    /\ report_data.total_new_count = 2
    /\ original_new_count(new_titles) = 3

(* C9 *)

\* C9: ReportData.failed_ids is the failed_ids argument, same elements in
\* the same order, and the empty sequence when the argument is None.
C9_FailedIdsPassThrough ==
    Done =>
        report_data.failed_ids =
            (IF failed_ids.some THEN failed_ids.val ELSE <<>>)

\* a call with two different failed ids, in an incremental report
C9_Witness ==
    /\ Done
    /\ failed_ids.some
    /\ Len(failed_ids.val) = 2
    /\ failed_ids.val[1] = "src2"
    /\ failed_ids.val[2] = "src1"
    /\ mode = "incremental"

(* C10 *)

\* C10 as stated: in every call, the titles of new_titles are exactly the
\* delta titles the Title Matcher accepts.
C10_ViewsAgreeInEveryCall ==
    Done => OutPairs = {pr \in DeltaPairs : MatcherAccepts(pr[2])}

\* C10 amended: new_titles is empty when the section is hidden or id_to_name
\* is empty or None; otherwise it holds exactly the delta titles the matcher
\* accepts when both matcher callables are supplied, and the whole delta
\* when one of them is missing.
C10_FilterAsMatcherWhenShown ==
    Done =>
        OutPairs =
            (IF Hidden \/ ~Truthy(id_to_name)
             THEN {}
             ELSE IF matches_word_groups_func.some /\ load_frequency_words_func.some
                  THEN {pr \in DeltaPairs : pr[2] \in matches_word_groups_func.val}
                  ELSE DeltaPairs)

\* a shown section where the matcher accepted one delta title and rejected another
C10_Witness ==
    /\ Done
    /\ ~Hidden
    /\ Truthy(id_to_name)
    /\ matches_word_groups_func.some /\ load_frequency_words_func.some
    /\ \E pr \in DeltaPairs : pr[2] \in matches_word_groups_func.val
    /\ \E pr \in DeltaPairs : pr[2] \notin matches_word_groups_func.val
    /\ OutPairs # {}

(* C11 *)

\* the rule configuration is missing: a matcher callable was not supplied
RulesMissing ==
    ~(matches_word_groups_func.some /\ load_frequency_words_func.some)

Winners ==
    {i \in 1..Len(m_rules.word_groups) :
        /\ GroupSatisfied(m_title, m_rules.word_groups[i])
        /\ ~Filtered(m_title, m_rules)}

\* C18: a finished match returns no bucket for an empty or whitespace-only
\* title and otherwise the label of the first group, in configured order,
\* that the title satisfies and that is not discarded; it returns no bucket
\* when there is no such group.
C18_FirstUndiscardedGroupWins ==
    m_pc = "done" =>
        /\ IsBlank(m_title) => m_result = None
        /\ (~IsBlank(m_title) /\ Winners = {}) => m_result = None
        /\ (~IsBlank(m_title) /\ Winners # {}) =>
               /\ m_result.some
               /\ \E i \in Winners :
                      /\ \A j \in Winners : i <= j
                      /\ m_result.val = m_rules.word_groups[i].label
        /\ m_result = match(m_title, m_rules)

\* a title that satisfies both configured groups and was given the first
C18_Witness ==
    /\ m_pc = "done"
    /\ Cardinality(Winners) = 2
    /\ m_result = Some(m_rules.word_groups[1].label)

(* C19 *)

ExpectedTier(ranks, threshold) ==
    IF MinOf(ranks) <= 3 THEN "top"
    ELSE IF MinOf(ranks) <= threshold THEN "high"
    ELSE ""

\* C14: every rendered title entry with non-empty ranks gets the tier top
\* when min(ranks) <= 3, otherwise high when min(ranks) <= the configured
\* rank_threshold of the report, otherwise normal.
C14_TierByConfiguredThreshold ==
    (t_pc = "done" /\ t_ranks # <<>>) =>
        t_class = ExpectedTier(t_ranks, t_threshold)

(* C20 *)

\* the observations consumed so far
Consumed == SubSeq(n_input, 1, n_pos - 1)

\* the valid observations of one key among those consumed, in arrival order
ValidOf(key) == SelectSeq(Consumed, LAMBDA o : KeyOf(o) = key /\ ~Malformed(o))

\* the ranks of those observations
ValidRanksOf(key) == [i \in 1..Len(ValidOf(key)) |-> ValidOf(key)[i].rank]

\* C20: at every point of a window, malformed observations included, every
\* TitleRecord has count = len(ranks) >= 1 and its ranks are the valid ranks
\* observed for its key in arrival order; keys with no valid observation have
\* no record; each malformed observation left a warning and nothing else, and
\* the window ends only with every observation consumed.
C20_RecordsFollowPollOrder ==
    /\ n_pc \in {"idle", "normalizing", "done"}
    /\ n_pc # "idle" =>
        /\ \A i \in 1..Len(n_records) :
              /\ n_records[i][2].count = Len(n_records[i][2].ranks)
              /\ n_records[i][2].count >= 1
              /\ n_records[i][2].ranks = ValidRanksOf(n_records[i][1])
        /\ \A o \in Range(Consumed) :
              HasKey(n_records, KeyOf(o)) <=> ValidOf(KeyOf(o)) # <<>>
        /\ Len(n_warnings) = Cardinality({i \in 1..(n_pos - 1) : Malformed(n_input[i])})
        /\ n_pc = "done" => n_pos = Len(n_input) + 1

\* a finished window with a dropped observation and a record whose ranks
\* follow the poll order against the timestamps
C20_Witness ==
    /\ n_pc = "done"
    /\ n_warnings # <<>>
    /\ \E i \in 1..Len(n_records) :
          /\ n_records[i][2].ranks = <<2, 1>>
          /\ n_records[i][2].first_time > n_records[i][2].last_time

(* C12 *)

\* position of a bucket label in the configured word groups
DeclIndex(word) ==
    CHOOSE i \in 1..Len(g_rules.word_groups) : g_rules.word_groups[i].label = word

\* C12: the stats of the assembled ReportData are in descending order of
\* count, and buckets of equal count stand in their declaration order.
C12_StatsSortedByCount ==
    g_pc = "assembled" =>
        \A i, j \in 1..Len(g_report.stats) :
            i < j =>
                \/ g_report.stats[i].count > g_report.stats[j].count
                \/ /\ g_report.stats[i].count = g_report.stats[j].count
                   /\ DeclIndex(g_report.stats[i].word)
                          < DeclIndex(g_report.stats[j].word)

\* three buckets: the last declared of a tie stays last, and a bigger bucket
\* has overtaken an earlier declared one
C12_Witness ==
    /\ g_pc = "assembled"
    /\ Len(g_report.stats) = 3
    /\ g_report.stats[1].count > g_report.stats[2].count
    /\ g_report.stats[2].count = g_report.stats[3].count
    /\ DeclIndex(g_report.stats[1].word) > DeclIndex(g_report.stats[2].word)

(* C13 *)

\* position in the record map of the record behind a title entry
DiscoveryIndex(e) ==
    CHOOSE i \in 1..Len(g_records) :
        /\ g_records[i][1][2] = e.title
        /\ source_name_of(KnownNames, g_records[i][1][1]) = e.source_name

\* C13: in every bucket of the assembled ReportData the title entries follow
\* the order in which their records were discovered.
C13_TitlesInDiscoveryOrder ==
    g_pc = "assembled" =>
        \A b \in 1..Len(g_report.stats) :
            \A i, j \in 1..Len(g_report.stats[b].titles) :
                i < j => DiscoveryIndex(g_report.stats[b].titles[i])
                             < DiscoveryIndex(g_report.stats[b].titles[j])

\* a bucket whose first entry has a worse best rank than its second
C13_Witness ==
    /\ g_pc = "assembled"
    /\ \E b \in 1..Len(g_report.stats) :
          /\ Len(g_report.stats[b].titles) >= 2
          /\ MinOf(g_report.stats[b].titles[1].ranks)
                 > MinOf(g_report.stats[b].titles[2].ranks)

(* C15 *)

\* the keys of the current window
WindowKeys == Range(KeysOf(d_records))

\* the key's title is matched by the rule set of the day
KeyMatched(k) == match(k[2], d_rules) # None

\* the differ ran in mode daily or current with the section enabled
DiffedEnabled ==
    d_pc = "diffed" /\ d_mode \in {"daily", "current"} /\ d_enabled

\* C15: in mode daily or current with the section enabled the delta holds
\* exactly the matched records whose key is absent from known_ids, and none
\* when the baseline is empty or absent; so a baseline equal to the window's
\* keys gives an empty delta, and a non-empty baseline that misses exactly one
\* key of the window, of a matched title, gives exactly that title.
C15_DeltaIsMatchedUnknownKeys ==
    DiffedEnabled =>
        /\ delta_keys(d_delta) =
               IF d_known = None \/ d_known.val = {} THEN {}
               ELSE {k \in WindowKeys : k \notin d_known.val /\ KeyMatched(k)}
        /\ (d_known # None /\ d_known.val = WindowKeys) => d_delta = <<>>
        /\ \A k \in WindowKeys :
              (/\ d_known # None
               /\ d_known.val # {}
               /\ WindowKeys \ d_known.val = {k}
               /\ KeyMatched(k))
                  => d_delta = << <<k[1], << <<k[2], [url |-> "http://x",
                                                      mobile_url |-> "",
                                                      ranks |-> PoolRanksOf(k)]>> >> >> >>

\* the baseline misses exactly one key of the window and the delta is that title
C15_Witness ==
    /\ DiffedEnabled
    /\ d_known = Some({<<"src1", <<"a">>>>})
    /\ WindowKeys = {<<"src1", <<"a">>>>, <<"src2", <<"a">>>>}
    /\ delta_keys(d_delta) = {<<"src2", <<"a">>>>}

(* C16 *)

\* known_ids as a set, absent taken as empty
KnownSet(b) == IF b = None THEN {} ELSE b.val

\* the persisted baseline never loses a key
BaselineGrows == KnownSet(d_baseline) \subseteq KnownSet(d_baseline')

\* C16: over the windows of one day, each loading the baseline at its start
\* and extending it once at its end with all its keys, the baseline only grows
\* and no key is reported as new in more than one window.
C16_NeverReannounced == [](d_repeated = {}) /\ [][BaselineGrows]_vars

\* a key reported as new by an earlier window is in the current window again
\* and the current diff, run with the section enabled, does not report it
C16_Witness ==
    /\ DiffedEnabled
    /\ d_window >= 2
    /\ \E k \in d_announced : k \in WindowKeys /\ k \notin delta_keys(d_delta)

(* C17 *)

\* the keys of a run's record map
RunKeys(run) == Range(KeysOf(r_records[run]))

\* both runs have persisted
BothDone == \A run \in Runs : r_pc[run] = "done"

\* a key of some run that is new relative to the baseline the runs started
\* from: the baseline exists, lacks the key, and the title is matched
NewToBaseline(k) ==
    /\ \E run \in Runs : k \in RunKeys(run)
    /\ KnownSet(r_initial) # {}
    /\ k \notin KnownSet(r_initial)
    /\ match(k[2], r_rules) # None

\* C17: under single-writer discipline the persisted baseline keeps every key
\* it had and every key of a run that has persisted, and once both runs have
\* persisted every title that was new relative to the baseline is in the
\* delta of at least one run.
C17_SerializedRunsLoseNothing ==
    r_discipline = "single_writer" =>
        /\ KnownSet(r_initial) \subseteq KnownSet(r_baseline)
        /\ \A run \in Runs :
              r_pc[run] = "done" => RunKeys(run) \subseteq KnownSet(r_baseline)
        /\ BothDone =>
              \A k \in Range(DayKeyOrder) :
                  NewToBaseline(k) =>
                      \E run \in Runs : k \in delta_keys(r_delta[run])

\* the second half of C17: without the discipline both runs have persisted and
\* a key of one of them is missing from the persisted baseline
UnserializedLostUpdate ==
    /\ r_discipline = "none"
    /\ BothDone
    /\ \E run \in Runs : ~(RunKeys(run) \subseteq KnownSet(r_baseline))

\* both serialized runs have persisted; they share a new title, which one of
\* them reported, and each has a key the other lacks
C17_Witness ==
    /\ r_discipline = "single_writer"
    /\ BothDone
    /\ RunKeys(1) \ RunKeys(2) # {}
    /\ RunKeys(2) \ RunKeys(1) # {}
    /\ \E k \in RunKeys(1) \cap RunKeys(2) :
          /\ NewToBaseline(k)
          /\ \E run \in Runs : k \notin delta_keys(r_delta[run])

(* C21 *)

\* the distinct keys of the window whose title is matched to the bucket
KeysMatchedTo(word) ==
    {KeyOf(p_obs[i]) : i \in {j \in 1..Len(p_obs) :
        /\ ~Malformed(p_obs[j])
        /\ match(p_obs[j].title, p_rules) = Some(word)}}

\* the buckets with their counts, in output order
WordCounts(sts) == [i \in 1..Len(sts) |-> <<sts[i].word, sts[i].count>>]

\* C21: the count of every bucket is the number of distinct (source_id,
\* title) keys matched to it, and after further observations of titles that
\* the window already holds every bucket has the count it had before.
C21_CountIgnoresRepeatedPolls ==
    p_pc = "aggregated" =>
        /\ \A i \in 1..Len(p_stats) :
              p_stats[i].count = Cardinality(KeysMatchedTo(p_stats[i].word))
        /\ p_repolls > 0 => WordCounts(p_stats) = WordCounts(p_prev)

\* a bucket of two records, one of them observed three times
C21_Witness ==
    /\ p_pc = "aggregated"
    /\ p_repolls = 2
    /\ \E i \in 1..Len(p_stats) :
          /\ p_stats[i].count = 2
          /\ \E j \in 1..2 : p_stats[i].titles[j].count = 3

(* C22 *)

\* the four paths of the claim, in its order
ClaimedOrder ==
    << <<"output", "html", "date_folder", "time_filename.html">>,
       <<"output", "html", "latest", w_mode>>,
       <<"output", "index.html">>,
       <<"index.html">> >>

\* C22: when generate_html_report has completed, the four files were written
\* in the claimed order, all hold the rendered content, and the snapshot path
\* is returned; when a step has raised, the files written before it, in that
\* order, hold the rendered content and the files after the failing one hold
\* what they held before the call.
C22_FourWritesInOrder ==
    /\ w_pc = "done" =>
          /\ w_log = ClaimedOrder
          /\ \A i \in 1..4 : w_files[ClaimedOrder[i]] = w_content
          /\ w_content = html_content_of(w_render, w_mode)
          /\ w_returned = Some(ClaimedOrder[1])
    /\ w_pc = "raised" =>
          /\ w_log = SubSeq(ClaimedOrder, 1, Len(w_log))
          /\ \A i \in 1..Len(w_log) : w_files[ClaimedOrder[i]] = w_content
          /\ \A i \in (Len(w_log) + 2)..4 :
                w_files[ClaimedOrder[i]] = w_before[ClaimedOrder[i]]

\* the third write failed: snapshot and latest hold the new content, the root
\* index.html still holds its previous content
C22_Witness ==
    /\ w_pc = "raised"
    /\ Len(w_log) = 2
    /\ w_files[ClaimedOrder[3]] = Truncated
    /\ w_files[ClaimedOrder[1]] = w_content
    /\ w_files[ClaimedOrder[4]] = [kind |-> "previous"]

(* C23 *)

\* the tool call has ended
ToolEnded == x_outcome # None

\* the exception the try block of the export met, if the validators or the
\* service raised one
MetFault ==
    IF validators_called(x_op, x_limit_given) /\ x_validation # Ok
    THEN Some(x_validation)
    ELSE IF x_service.type # "ok" THEN Some(x_service)
    ELSE None

\* C23: an export operation never raises: it returns success = true with
\* data, or success = false with the error of the MCPError it met or with
\* code EXPORT_ERROR; and a REST handler answers every exception of its tool
\* call, _get_tools included, with HTTP 500.
C23_NoFaultEscapes ==
    /\ (ToolEnded /\ x_op \in ExportOps) =>
          /\ ~x_outcome.val.raised
          /\ \/ /\ x_outcome.val.value.success
                /\ "data" \in DOMAIN x_outcome.val.value
             \/ /\ ~x_outcome.val.value.success
                /\ x_outcome.val.value.error.code =
                       IF MetFault # None /\ MetFault.val.type = "MCPError"
                       THEN MetFault.val.code
                       ELSE "EXPORT_ERROR"
          /\ MetFault # None => ~x_outcome.val.value.success
    /\ (x_pc = "responded" /\ (x_tools # Ok \/ x_outcome.val.raised)) =>
          x_response.val.status = 500

\* the data service raised inside export_news_csv called through REST: the
\* tool returned EXPORT_ERROR and the handler passed it on
C23_Witness ==
    /\ x_pc = "responded"
    /\ ToolEnded
    /\ x_op = "export_news_csv"
    /\ x_service.type = "Exception"
    /\ x_validation = Ok
    /\ x_outcome.val.value.error.code = "EXPORT_ERROR"
    /\ x_response.val.body = x_outcome.val.value

(* C30 *)

\* the export succeeded
Exported ==
    /\ ToolEnded
    /\ x_op \in ExportOps
    /\ ~x_outcome.val.raised
    /\ x_outcome.val.value.success

\* the returned dict
Result == x_outcome.val.value

\* C30: after a successful export summary.total equals row_count (CSV) or
\* item_count (JSON) and the number of items the data service returned; the
\* CSV is one header row and one row per item; with no items the content is
\* empty ("" or "[]") and total is 0, and the REST CSV endpoint then answers
\* with the JSON result, otherwise with the CSV attachment.
C30_TotalsMatchItems ==
    Exported =>
        /\ Result.summary.total = Len(x_service.items)
        /\ x_op \in CsvOps =>
              /\ Result.data.row_count = Result.summary.total
              /\ Len(x_service.items) > 0 =>
                    /\ Len(Result.data.csv_content) = 1 + Len(x_service.items)
                    /\ Result.data.csv_content[1] = Result.data.columns
              /\ Len(x_service.items) = 0 => Result.data.csv_content = <<>>
        /\ x_op \notin CsvOps =>
              /\ Result.data.item_count = Result.summary.total
              /\ Len(x_service.items) = 0 =>
                    Result.data.json_content = [json |-> <<>>]
        /\ (x_pc = "responded" /\ x_op \in CsvOps) =>
              IF Len(x_service.items) = 0
              THEN x_response.val = [status |-> 200,
                                     media_type |-> "application/json",
                                     body |-> Result]
              ELSE x_response.val.media_type = "text/csv"

\* the REST CSV endpoint answered an empty export with the JSON result
C30_Witness ==
    /\ Exported
    /\ x_pc = "responded"
    /\ x_op = "export_rss_csv"
    /\ x_service.items = <<>>
    /\ x_response.val.media_type = "application/json"
    /\ x_response.val.body.data.row_count = 0

(* C24 *)

C25_NoNamesNoNewTitles ==
    (Done /\ ~Truthy(id_to_name)) => NewIsEmpty

\* a shown section and a delta with titles that pass the filter, yet no group
C25_Witness ==
    /\ Done
    /\ ~Hidden
    /\ ~Truthy(id_to_name)
    /\ \E pr \in DeltaPairs : Survives(pr[2])
    /\ NewIsEmpty

(* C26 *)

\* the source ids of the delta, in its iteration order
DeltaSources ==
    IF new_titles.some
    THEN [i \in 1..Len(new_titles.val) |-> new_titles.val[i][1]]
    ELSE <<>>

\* the source ids of the groups of ReportData.new_titles, in order
GroupSources ==
    [i \in 1..Len(report_data.new_titles) |-> report_data.new_titles[i].source_id]

\* the source has a title that passes the filter
HasSurvivor(source_id) ==
    \E pr \in DeltaPairs : pr[1] = source_id /\ Survives(pr[2])

\* C26: every group of ReportData.new_titles has a title entry, no source has
\* two groups, and the groups are the sources of the delta that keep a title
\* after the filter, in the delta's order: a source with an empty title
\* mapping or with every title filtered out has no group.
C26_GroupsNonEmptyInDeltaOrder ==
    Done =>
        /\ \A i \in 1..Len(report_data.new_titles) :
              report_data.new_titles[i].titles # <<>>
        /\ \A i, j \in 1..Len(GroupSources) :
              i # j => GroupSources[i] # GroupSources[j]
        /\ GroupSources =
               IF Hidden \/ ~Truthy(id_to_name) THEN <<>>
               ELSE SelectSeq(DeltaSources, HasSurvivor)

\* the first source of the delta has no group: without a matcher its title
\* mapping is empty
C26_Witness ==
    /\ Done
    /\ ~matches_word_groups_func.some
    /\ Len(DeltaSources) = 2
    /\ new_titles.val[1][2] = <<>>
    /\ GroupSources = <<DeltaSources[2]>>

(* C27 *)

\* the buckets of the input that have a positive count, in input order
PositiveStats == SelectSeq(stats, LAMBDA st : st.count > 0)

\* C27: every new-title entry has is_new = true, time_display = "", count = 1
\* and the rank_threshold of the call; every stats title entry has the count,
\* ranks and rank_threshold of the input entry it was copied from.
C27_NewEntriesFixedStatsEntriesKept ==
    Done =>
        /\ \A g \in Range(report_data.new_titles) :
              \A e \in Range(g.titles) :
                  /\ e.is_new
                  /\ e.time_display = ""
                  /\ e.count = 1
                  /\ e.rank_threshold = rank_threshold
        /\ Len(report_data.stats) = Len(PositiveStats)
        /\ \A i \in 1..Len(report_data.stats) :
              /\ Len(report_data.stats[i].titles) = Len(PositiveStats[i].titles)
              /\ \A j \in 1..Len(report_data.stats[i].titles) :
                    /\ report_data.stats[i].titles[j].count
                           = PositiveStats[i].titles[j].count
                    /\ report_data.stats[i].titles[j].ranks
                           = PositiveStats[i].titles[j].ranks
                    /\ report_data.stats[i].titles[j].rank_threshold
                           = PositiveStats[i].titles[j].rank_threshold

\* a new entry with two ranks and count 1, next to a stats entry whose
\* rank_threshold is not the one of the call
C27_Witness ==
    /\ Done
    /\ \E g \in Range(report_data.new_titles) :
          \E e \in Range(g.titles) : Len(e.ranks) = 2 /\ e.count = 1
    /\ \E st \in Range(report_data.stats) :
          \E e \in Range(st.titles) :
              e.rank_threshold # rank_threshold /\ e.count = 2

(* C28 *)

\* the parts of a region, in the order in which they are to appear
PartsOfRegion(region) ==
    IF region = "hotlist" THEN <<"stats">>
    ELSE IF region = "rss" THEN <<"rss_stats">>
    ELSE IF region = "new_items" THEN <<"new_titles", "rss_new">>
    ELSE IF region = "standalone" THEN <<"standalone">>
    ELSE IF region = "ai_analysis" THEN <<"ai">>
    ELSE <<>>

\* the non-empty parts of the regions of an order, in that order
RECURSIVE ExpectedParts(_)
ExpectedParts(order) ==
    IF order = <<>> THEN <<>>
    ELSE SelectSeq(PartsOfRegion(Head(order)), LAMBDA part : part \in o_nonempty)
             \o ExpectedParts(Tail(order))

\* the block carries the divider class on its outer div
HasDivider(block) == "section-divider" \in Range(block[1])

\* the block without the divider class
Undivided(block) ==
    [block EXCEPT ![1] = SelectSeq(@, LAMBDA c : c # "section-divider")]

\* the order the call works with
GivenOrder ==
    IF o_region_order = None
    THEN <<"hotlist", "rss", "new_items", "standalone", "ai_analysis">>
    ELSE o_region_order.val

\* C28: when the assembly is over, the emitted blocks are the non-empty parts
\* of the regions named in region_order, in that order, with the hot-list new
\* block before the RSS new block; empty regions, unknown names and regions
\* not named emit nothing; and a block has the section-divider class exactly
\* when a block was emitted before it.
C28_RegionsInOrderWithDividers ==
    o_pc = "done" =>
        /\ Len(o_html) = Len(ExpectedParts(GivenOrder))
        /\ \A i \in 1..Len(o_html) :
              /\ Undivided(o_html[i]) = block_of(ExpectedParts(GivenOrder)[i])
              /\ HasDivider(o_html[i]) <=> i > 1

\* an unknown name and an empty hot list come first: the hot-list new block
\* is the first block and has no divider, the RSS new block follows with one
C28_Witness ==
    /\ o_pc = "done"
    /\ o_region_order = Some(<<"sidebar", "hotlist", "new_items">>)
    /\ "stats" \notin o_nonempty
    /\ "standalone" \in o_nonempty
    /\ Len(o_html) = 2
    /\ o_html[1] = << <<"new-section">>, <<"new-section-title">> >>
    /\ HasDivider(o_html[2])

(* C29 *)

\* at most one bundle was created, and every tool handed to a worker thread
\* belongs to the cached bundle
OneBundle ==
    /\ c_created <= 1
    /\ \A r \in DOMAIN c_passed :
          c_passed[r] # None =>
              /\ c_tools_cache # None
              /\ c_passed[r].val.bundle = c_tools_cache.val

\* a cache that is set keeps its value
CacheKept == c_tools_cache # None => c_tools_cache' = c_tools_cache

\* C29: under every interleaving of the requests the tools bundle is created
\* at most once: once _tools_cache is set it is never assigned again, and
\* every handler hands tools of that same bundle to its worker thread.
C29_ToolsCreatedOnce == [](OneBundle) /\ [][CacheKept]_vars

\* one request failed while the cache was empty, and two later requests have
\* their worker threads running at the same time with tools of the one bundle
C29_Witness ==
    /\ c_created = 1
    /\ \E r1, r2, r3 \in DOMAIN c_pc :
          /\ r2 # r3
          /\ c_pc[r1] = "error500"
          /\ c_passed[r1] = None
          /\ c_pc[r2] = "thread"
          /\ c_pc[r3] = "thread"
          /\ c_passed[r2].val.bundle = c_passed[r3].val.bundle


====
